---------------------------- MODULE Spec2Model ----------------------------
(***************************************************************************)
(* Model of RevitResolutionTools: the journal and worker-log parsers, the  *)
(* HTML warnings parser and the journal problem finder                     *)
(* (src/src/revit_warnings_manager/parsers.py), and the warnings tab that  *)
(* loads, edits and saves the warnings (src/src/file_operations.py,        *)
(* src/src/handlers.py).                                                   *)
(*                                                                         *)
(* Text is modelled at character level with TLA+ strings.  A file is a     *)
(* sequence of raw lines (the line terminator, which str.strip() removes,  *)
(* is left out).  Raw file data is written over ASCII plus one symbol,     *)
(* ByteE9, standing for the single byte 0xE9, which is not valid UTF-8.    *)
(***************************************************************************)
EXTENDS Integers, Sequences, FiniteSets, TLC

(***************************************************************************)
(* Bounds of the model.                                                    *)
(***************************************************************************)
MaxLines == 2
MaxRows == 3

(***************************************************************************)
(* Characters.                                                             *)
(***************************************************************************)
ByteE9 == "#"        \* raw byte 0xE9 (invalid as UTF-8 on its own)
ReplChar == "~"      \* U+FFFD, what errors='replace' puts for a bad byte
CharE9 == "@"        \* U+00E9, what latin-1 / cp1252 decode 0xE9 to

Digits == {"0", "1", "2", "3", "4", "5", "6", "7", "8", "9"}
UpperLetters == {"A", "B", "C", "D", "E", "F", "G", "H", "I", "J", "K", "L", "M",
                 "N", "O", "P", "Q", "R", "S", "T", "U", "V", "W", "X", "Y", "Z"}
LowerLetters == {"a", "b", "c", "d", "e", "f", "g", "h", "i", "j", "k", "l", "m",
                 "n", "o", "p", "q", "r", "s", "t", "u", "v", "w", "x", "y", "z"}
HexDigits == Digits \cup {"A", "B", "C", "D", "E", "F", "a", "b", "c", "d", "e", "f"}
WordChars == Digits \cup UpperLetters \cup LowerLetters \cup {"_", CharE9}
Whitespace == {" ", "\t", "\n", "\r"}

CharAt(s, i) == SubSeq(s, i, i)

Max(S) == CHOOSE n \in S : \A m \in S : m <= n
Min(S) == CHOOSE n \in S : \A m \in S : n <= m

(***************************************************************************)
(* Python string methods.                                                  *)
(***************************************************************************)
\* p in s
Contains(s, p) ==
    \E i \in 1..(Len(s) - Len(p) + 1) : SubSeq(s, i, i + Len(p) - 1) = p

\* s.find(p) + 1 (0 when absent)
Find(s, p) ==
    LET hits == {i \in 1..(Len(s) - Len(p) + 1) : SubSeq(s, i, i + Len(p) - 1) = p}
    IN  IF hits = {} THEN 0 ELSE Min(hits)

\* s.startswith(p)
StartsWith(s, p) == Len(s) >= Len(p) /\ SubSeq(s, 1, Len(p)) = p

\* s.strip()
Strip(s) ==
    LET keep == {i \in 1..Len(s) : CharAt(s, i) \notin Whitespace}
    IN  IF keep = {} THEN "" ELSE SubSeq(s, Min(keep), Max(keep))

LowerChar(c) ==
    CASE c = "A" -> "a" [] c = "B" -> "b" [] c = "C" -> "c" [] c = "D" -> "d"
      [] c = "E" -> "e" [] c = "F" -> "f" [] c = "G" -> "g" [] c = "H" -> "h"
      [] c = "I" -> "i" [] c = "J" -> "j" [] c = "K" -> "k" [] c = "L" -> "l"
      [] c = "M" -> "m" [] c = "N" -> "n" [] c = "O" -> "o" [] c = "P" -> "p"
      [] c = "Q" -> "q" [] c = "R" -> "r" [] c = "S" -> "s" [] c = "T" -> "t"
      [] c = "U" -> "u" [] c = "V" -> "v" [] c = "W" -> "w" [] c = "X" -> "x"
      [] c = "Y" -> "y" [] c = "Z" -> "z" [] OTHER -> c

\* s.lower()
RECURSIVE Lower(_)
Lower(s) ==
    LET ups == {i \in 1..Len(s) : CharAt(s, i) \in UpperLetters}
    IN  IF ups = {} THEN s
        ELSE SubSeq(s, 1, Min(ups) - 1) \o LowerChar(CharAt(s, Min(ups)))
                 \o Lower(SubSeq(s, Min(ups) + 1, Len(s)))

(***************************************************************************)
(* Regular expressions (re.search): a pattern is a sequence of elements,   *)
(* each a character class with a repetition (one, +, * ); quantifiers are  *)
(* greedy and back off, the leftmost match wins.                           *)
(***************************************************************************)
InClass(c, e) == IF e.neg THEN c \notin e.set ELSE c \in e.set

One(S) == [set |-> S, neg |-> FALSE, min |-> 1, many |-> FALSE]
Plus(S) == [set |-> S, neg |-> FALSE, min |-> 1, many |-> TRUE]
Star(S) == [set |-> S, neg |-> FALSE, min |-> 0, many |-> TRUE]
PlusNot(S) == [set |-> S, neg |-> TRUE, min |-> 1, many |-> TRUE]
StarNot(S) == [set |-> S, neg |-> TRUE, min |-> 0, many |-> TRUE]
\* a lazy repetition ( *? ): it takes the shortest run that lets the rest match
StarLazyNot(S) == [set |-> S, neg |-> TRUE, min |-> 0, many |-> TRUE, lazy |-> TRUE]
IsLazy(e) == "lazy" \in DOMAIN e
Lit(s) == [i \in 1..Len(s) |-> One({CharAt(s, i)})]

\* whether s has a character of class e at position i
Has(s, i, e) == i <= Len(s) /\ InClass(CharAt(s, i), e)

\* length of the longest run of characters of class e starting at s[i]
RECURSIVE RunLen(_, _, _)
RunLen(s, i, e) == IF Has(s, i, e) THEN 1 + RunLen(s, i + 1, e) ELSE 0

\* the lengths element e may take at position i of s
Runs(s, i, e) ==
    IF e.many THEN e.min..RunLen(s, i, e)
    ELSE IF Has(s, i, e) THEN {1} ELSE {}

\* whether elements k.. of pat match at position i of s
RECURSIVE CanMatch(_, _, _, _)
CanMatch(pat, k, s, i) ==
    IF k > Len(pat) THEN TRUE
    ELSE IF pat[k].many THEN \E n \in Runs(s, i, pat[k]) : CanMatch(pat, k + 1, s, i + n)
    ELSE Has(s, i, pat[k]) /\ CanMatch(pat, k + 1, s, i + 1)

\* The match of elements k.. of pat at position i of s, where they match:
\* the start position of each of these elements followed by the end
\* position.  A repetition takes the longest run that lets the rest match,
\* a lazy one the shortest.
RECURSIVE MatchAt(_, _, _, _)
MatchAt(pat, k, s, i) ==
    IF k > Len(pat) THEN <<i>>
    ELSE LET ns == {n \in Runs(s, i, pat[k]) : CanMatch(pat, k + 1, s, i + n)}
         IN  <<i>> \o MatchAt(pat, k + 1, s,
                              i + (IF IsLazy(pat[k]) THEN Min(ns) ELSE Max(ns)))

\* re.search(pat, s): the positions of the leftmost match, << >> when none
Search(pat, s) ==
    LET starts == {i \in 1..(Len(s) + 1) : CanMatch(pat, 1, s, i)}
    IN  IF starts = {} THEN << >> ELSE MatchAt(pat, 1, s, Min(starts))

\* the text from the start of element a to the start of element b of match m
Group(s, m, a, b) == SubSeq(s, m[a], m[b] - 1)


\* an optional value: << >> (None) or <<v>>
None == << >>
Some(v) == <<v>>

\* m.group(0) for a match m of pat in s
Whole(pat, s, m) == Group(s, m, 1, Len(pat) + 1)

(***************************************************************************)
(* The regular expressions of the parsers.                                 *)
(***************************************************************************)
Quote == "\""

\* r"\d+-\w+-\d+ \d+:\d+:\d+\.\d+"
TimestampPat ==
    <<Plus(Digits)>> \o Lit("-") \o <<Plus(WordChars)>> \o Lit("-") \o
    <<Plus(Digits)>> \o Lit(" ") \o <<Plus(Digits)>> \o Lit(":") \o
    <<Plus(Digits)>> \o Lit(":") \o <<Plus(Digits)>> \o Lit(".") \o
    <<Plus(Digits)>>

\* r'Jrn\.Command\s+"([^"]+)"\s*,\s*"([^"]+)"'
CommandPat ==
    Lit("Jrn.Command") \o <<Plus(Whitespace)>> \o Lit(Quote) \o
    <<PlusNot({Quote})>> \o Lit(Quote) \o <<Star(Whitespace)>> \o Lit(",") \o
    <<Star(Whitespace)>> \o Lit(Quote) \o <<PlusNot({Quote})>> \o Lit(Quote)

\* r'(\d+\.\d+)!!!'
GapPat == <<Plus(Digits)>> \o Lit(".") \o <<Plus(Digits)>> \o Lit("!!!")

\* r'Path = "([^"]+\.rvt)"'
PathPat == Lit("Path = ") \o Lit(Quote) \o <<PlusNot({Quote})>> \o Lit(".rvt") \o Lit(Quote)

\* r'Region = "([^"]+)"'
RegionPat == Lit("Region = ") \o Lit(Quote) \o <<PlusNot({Quote})>> \o Lit(Quote)

\* r'Central server = "([^"]*)"'
ServerPat == Lit("Central server = ") \o Lit(Quote) \o <<StarNot({Quote})>> \o Lit(Quote)

\* r'Is server path = (\w+)'
ServerPathPat == Lit("Is server path = ") \o <<Plus(WordChars)>>

\* r"User's Name ([^,]+),"
UserPat == Lit("User's Name ") \o <<PlusNot({","})>> \o Lit(",")

\* r'\(this=(0x[0-9A-Fa-f]+)\)'
HandlePat == Lit("(this=0x") \o <<Plus(HexDigits)>> \o Lit(")")

\* r'Username\s*,\s*"([^"]+)"'
UsernamePat ==
    Lit("Username") \o <<Star(Whitespace)>> \o Lit(",") \o <<Star(Whitespace)>> \o
    Lit(Quote) \o <<PlusNot({Quote})>> \o Lit(Quote)

\* match.group(0) of the timestamp pattern, None when the line has none
TimestampToken(line) ==
    LET m == Search(TimestampPat, line)
    IN  IF m = << >> THEN None ELSE Some(Whole(TimestampPat, line, m))

\* the "X: Y" label of a Jrn.Command line, None without two quoted arguments
CommandLabel(line) ==
    LET m == Search(CommandPat, line)
    IN  IF m = << >> THEN None
        ELSE Some(Group(line, m, 14, 15) \o ": " \o Group(line, m, 20, 21))

\* gap_match.group(1)
GapTime(line) ==
    LET m == Search(GapPat, line)
    IN  IF m = << >> THEN None ELSE Some(Group(line, m, 1, 4))

\* the byte a %XX escape stands for, decoded as UTF-8 with replacement
PercentByte(hex) ==
    CASE hex = "20" -> " "
      [] hex = "41" -> "A"
      [] hex = "E9" -> ReplChar

\* urllib.parse.unquote
RECURSIVE Unquote(_)
Unquote(s) ==
    IF s = "" THEN ""
    ELSE IF /\ Head(s) = "%"
            /\ Len(s) >= 3
            /\ CharAt(s, 2) \in HexDigits
            /\ CharAt(s, 3) \in HexDigits
         THEN PercentByte(SubSeq(s, 2, 3)) \o Unquote(SubSeq(s, 4, Len(s)))
         ELSE Head(s) \o Unquote(Tail(s))

\* the captured group of a one-group pattern whose group is element g
Capture(pat, g, line) ==
    LET m == Search(pat, line)
    IN  IF m = << >> THEN None ELSE Some(Group(line, m, g, g + 1))

\* path_match.group(1) / model_match.group(1): the quoted .rvt path
RvtPath(line) ==
    LET m == Search(PathPat, line)
    IN  IF m = << >> THEN None ELSE Some(Group(line, m, 9, 14))

\* handle_match.group(1)
Handle(line) ==
    LET m == Search(HandlePat, line)
    IN  IF m = << >> THEN None ELSE Some(Group(line, m, 7, 10))

\* line.split(sep)[1].strip(), for a line that contains sep
SplitSecond(line, sep) ==
    LET a == Find(line, sep) + Len(sep)
        tail == SubSeq(line, a, Len(line))
        b == Find(tail, sep)
    IN  Strip(IF b = 0 THEN tail ELSE SubSeq(tail, 1, b - 1))

(***************************************************************************)
(* Dictionaries are functions on their keys.                               *)
(***************************************************************************)
EmptyDict == << >>
Put(d, k, v) == [x \in (DOMAIN d) \cup {k} |-> IF x = k THEN v ELSE d[x]]

(***************************************************************************)
(* Decoding.                                                               *)
(***************************************************************************)
encodings == <<"utf-8", "latin-1", "cp1252", "iso-8859-1">>

\* the text of one byte under an encoding, with errors='replace'
DecodeChar(enc, c) ==
    IF c = ByteE9
    THEN IF enc = "utf-8" THEN ReplChar ELSE CharE9
    ELSE c

\* the text of raw under an encoding: every byte but ByteE9 is ASCII and
\* decodes to itself
RECURSIVE Decode(_, _)
Decode(enc, raw) ==
    LET a == Find(raw, ByteE9)
    IN  IF a = 0 THEN raw
        ELSE SubSeq(raw, 1, a - 1) \o DecodeChar(enc, ByteE9)
                 \o Decode(enc, SubSeq(raw, a + 1, Len(raw)))

\* whether reading raw under enc raises UnicodeDecodeError: the files are
\* opened with errors='replace', under which no decoding raises
DecodeRaises(enc, raw) == FALSE

(***************************************************************************)
(* Line classification.                                                    *)
(***************************************************************************)
\* parse_journal: primary category based on prefix
PrefixCategory(line) ==
    IF StartsWith(line, "'C") THEN "Control"
    ELSE IF StartsWith(line, "'H") THEN "Header"
    ELSE IF StartsWith(line, "'E") THEN "Event"
    ELSE IF StartsWith(line, "Jrn.Command") THEN "Command"
    ELSE IF StartsWith(line, "Jrn.") THEN "Journal"
    ELSE IF StartsWith(line, "'") THEN "Comment"
    ELSE "Unknown"

\* parse_journal: special categories based on content
ContentCategory(line, category) ==
    IF Contains(line, "BIG_GAP") \/ Contains(line, "!!!BIG_GAP") THEN "BIG GAP"
    ELSE IF Contains(line, "Unrecoverable error") THEN "Error"
    ELSE IF Contains(Lower(line), "exception") THEN "Error"
    ELSE IF Contains(line, "API_ERROR") THEN "Error"
    ELSE IF Contains(line, "Error posted") THEN "Error"
    ELSE IF Contains(line, "RAM Statistics") \/ Contains(line, "VM Statistics")
         THEN "Performance"
    ELSE IF Contains(line, "Delta VM") \/ Contains(line, "Delta RAM")
         THEN "Performance"
    ELSE category

\* a variant that rewrites every line with a gap time, marker or not
GapRewriteAnyLine(line) ==
    LET gap_match == GapTime(line)
    IN  IF gap_match # None
        THEN "BIG GAP: " \o gap_match[1] \o " seconds - " \o line
        ELSE line

\* parse_journal: the line as rewritten for a BIG_GAP with a gap time
GapRewrite(line) ==
    LET gap_match == IF Contains(line, "BIG_GAP") \/ Contains(line, "!!!BIG_GAP")
                     THEN GapTime(line) ELSE None
    IN  IF gap_match # None
        THEN "BIG GAP: " \o gap_match[1] \o " seconds - " \o line
        ELSE line

\* parse_journal: whether the line is examined for model information
IsModelLine(line) ==
    /\ Contains(line, "ModelPath Created")
    /\ Contains(line, "Path = ")
    /\ Contains(line, ".rvt")

PutIf(d, k, opt) == IF opt = None THEN d ELSE Put(d, k, opt[1])

\* parse_journal: current_model_info built from a model line
ModelInfoOf(line, timestamp) ==
    LET d0 == Put(EmptyDict, "timestamp", timestamp)
        p == RvtPath(line)
        d1 == PutIf(d0, "path", IF p = None THEN None ELSE Some(Unquote(p[1])))
        d2 == PutIf(d1, "region", Capture(RegionPat, 11, line))
        d3 == PutIf(d2, "server", Capture(ServerPat, 19, line))
        sp == Capture(ServerPathPat, 18, line)
    IN  PutIf(d3, "is_server_path",
              IF sp = None THEN None
              ELSE Some(IF Lower(sp[1]) = "true" THEN "True" ELSE "False"))

\* parse_journal: the username set on every model info that has none
BackFill(infos, line) ==
    LET u == IF Contains(line, "User's Name ") THEN Capture(UserPat, 13, line) ELSE None
    IN  IF u = None THEN infos
        ELSE [k \in 1..Len(infos) |->
                 IF "username" \in DOMAIN infos[k] THEN infos[k]
                 ELSE Put(infos[k], "username", u[1])]

\* parse_journal_with_models: category of a line
ModelsCategory(line) ==
    LET category ==
            IF StartsWith(line, "'C") THEN "Control"
            ELSE IF StartsWith(line, "'H") THEN "Header"
            ELSE IF StartsWith(line, "'E") THEN "Event"
            ELSE IF StartsWith(line, "Jrn.Command") THEN "Command"
            ELSE IF StartsWith(line, "Jrn.") THEN "Journal"
            ELSE IF StartsWith(line, "'") THEN "Comment"
            ELSE "Unknown"
    IN  IF Contains(line, "BIG_GAP") \/ Contains(line, "!!!BIG_GAP") THEN "BIG GAP"
        ELSE IF Contains(line, "Unrecoverable error") THEN "Error"
        ELSE IF Contains(Lower(line), "exception") THEN "Error"
        ELSE IF Contains(line, "API_ERROR") THEN "Error"
        ELSE IF Contains(line, "Error posted") THEN "Error"
        ELSE IF Contains(line, "RAM Statistics") \/ Contains(line, "VM Statistics")
             THEN "Performance"
        ELSE IF Contains(line, "Delta VM") \/ Contains(line, "Delta RAM")
             THEN "Performance"
        ELSE IF Contains(line, "ModelPath Created") THEN "Model"
        ELSE category

\* a variant that keeps the first value of a field
HeaderStepFirstWins(header, line) ==
    LET PutNew(k, v) == IF k \in DOMAIN header THEN header ELSE Put(header, k, v)
    IN  IF Contains(line, "Build:") THEN PutNew("build", SplitSecond(line, "Build:"))
        ELSE IF Contains(line, "Branch:") THEN PutNew("branch", SplitSecond(line, "Branch:"))
        ELSE IF Contains(line, "Release:") THEN PutNew("release", SplitSecond(line, "Release:"))
        ELSE IF Contains(line, "Username")
             THEN LET u == Capture(UsernamePat, 13, line)
                  IN  PutNew("username", IF u = None THEN "Unknown" ELSE u[1])
        ELSE header

\* parse_journal_with_models: header information of a line
HeaderStep(header, line) ==
    IF Contains(line, "Build:") THEN Put(header, "build", SplitSecond(line, "Build:"))
    ELSE IF Contains(line, "Branch:") THEN Put(header, "branch", SplitSecond(line, "Branch:"))
    ELSE IF Contains(line, "Release:") THEN Put(header, "release", SplitSecond(line, "Release:"))
    ELSE IF Contains(line, "Username")
         THEN LET u == Capture(UsernamePat, 13, line)
              IN  Put(header, "username", IF u = None THEN "Unknown" ELSE u[1])
    ELSE header

\* parse_journal_with_models: the decoded path of a model-creation line
CreatedModel(line) ==
    LET model_match == IF Contains(line, "ModelPath Created") THEN RvtPath(line) ELSE None
    IN  IF model_match # None THEN Some(Unquote(model_match[1])) ELSE None

(***************************************************************************)
(* State.                                                                  *)
(***************************************************************************)
VARIABLES
    fileExists,          \* whether the file at file_path can be opened
    fileLines,           \* its raw lines
    pc,                  \* the call in progress and its position
    encoding,            \* index in encodings of the candidate being tried
    lineno,              \* number of lines the loop has processed
    last_exception,      \* None or <<the exception caught last>>
    \* locals of parse_journal
    parsed_data, last_timestamp, models_info, current_model_info, current_command,
    \* locals of parse_journal_with_models
    models, model_handles, categorized_lines, header_info, current_model,
    \* what the last call of each parser gave its caller
    flat_outcome, models_outcome,
    \* locals and outcome of parse_worker_log
    lines, entries, worker_outcome,
    \* JournalProblemFinder: the finder object, the argument and the locals
    \* of find_problems (problems_timestamp is its local last_timestamp),
    \* and what the last call returned
    finder, file_content, problems, problems_timestamp, problems_outcome,
    \* the warnings tab: the HTML file on disk, the JSON files on disk, the
    \* controller's warnings_data and json_file_path, the open detail dialog
    html_file, disk, warnings_data, json_file_path, dialog,
    \* whether bs4 could be imported, and the position of the wall clock
    BS4_AVAILABLE, now,
    \* history: the positions of warnings_data whose status the dialog has
    \* saved, the last call of save_json, the file load_json read last
    edited, save_call, loaded,
    \* history: the first file of the session and what the parsers returned
    \* for it
    remembered,
    \* the journal tab: the worker log next to the journal on disk, the
    \* controller's journal_data and worker_log_entries, the rows of
    \* journal_tree, the category and search filters, the entry lines of the
    \* file export_journal_filtered wrote last
    worker_file, journal_data, worker_log_entries, journal_tree,
    journal_filter, journal_search_var, exported,
    \* the warnings tab's filters and tree view
    status_filter, search_var, group_mode, tree,
    \* history: whether the last file operation met a failure of reading,
    \* parsing or writing, and the messages it showed the user
    failed, shown

fileVars == <<fileExists, fileLines>>
loopVars == <<encoding, lineno, last_exception>>
flatVars == <<parsed_data, last_timestamp, models_info, current_model_info, current_command>>
modelsVars == <<models, model_handles, categorized_lines, header_info, current_model>>
workerVars == <<lines, entries, worker_outcome>>
problemVars == <<finder, file_content, problems, problems_timestamp, problems_outcome>>
warningVars == <<html_file, disk, warnings_data, json_file_path, dialog,
                 BS4_AVAILABLE, now, edited, save_call, loaded,
                 status_filter, search_var, group_mode, tree>>
viewVars == <<status_filter, search_var, group_mode, tree>>
tabVars == <<worker_file, journal_data, worker_log_entries, journal_tree,
             journal_filter, journal_search_var, exported>>
opVars == <<failed, shown>>
\* the state the journal parsers leave alone
nonJournalVars == <<workerVars, problemVars, warningVars, remembered, tabVars, opVars>>
\* the state the worker-log parser leaves alone
nonWorkerVars == <<encoding, last_exception, flatVars, modelsVars,
                   flat_outcome, models_outcome, problemVars, warningVars, remembered,
                   tabVars, opVars>>
\* the state analyze_journal leaves alone (it shows messages and fills
\* journal_tree)
nonProblemVars == <<encoding, last_exception, flatVars, modelsVars,
                    flat_outcome, models_outcome, workerVars, warningVars, remembered,
                    worker_file, journal_data, worker_log_entries,
                    journal_filter, journal_search_var, exported>>
\* the state the warnings tab leaves alone (its file operations show
\* messages)
nonWarningVars == <<fileVars, pc, loopVars, flatVars, modelsVars,
                    flat_outcome, models_outcome, workerVars, problemVars, remembered,
                    tabVars>>
vars == <<fileVars, pc, loopVars, flatVars, modelsVars, flat_outcome, models_outcome,
          workerVars, problemVars, warningVars, remembered, tabVars, opVars>>

NotCalled == [status |-> "none"]

\* a variant that keeps the locals of the previous call
FlatStale == UNCHANGED flatVars

\* parse_journal: the locals set at the head of the encodings loop
FlatFresh ==
    /\ parsed_data' = << >>
    /\ last_timestamp' = ""
    /\ models_info' = << >>
    /\ current_model_info' = EmptyDict
    /\ current_command' = ""

\* parse_journal_with_models: the locals set after readlines()
ModelsFresh ==
    /\ models' = << >>
    /\ model_handles' = EmptyDict
    /\ categorized_lines' = << >>
    /\ header_info' = EmptyDict
    /\ current_model' = "All models"

\* the files of at most MaxLines lines over a pool of lines
RECURSIVE SeqsUpTo(_, _)
SeqsUpTo(pool, n) ==
    IF n = 0 THEN {<< >>}
    ELSE LET shorter == SeqsUpTo(pool, n - 1)
         IN  shorter \cup {Append(f, l) : f \in {g \in shorter : Len(g) = n - 1}, l \in pool}

\* JournalProblemFinder.__init__
JournalProblemFinder(time_threshold_sec, ram_spike_mb) ==
    [time_threshold_sec |-> time_threshold_sec, ram_spike_mb |-> ram_spike_mb]

\* the JSON files the warnings tab may read and write
JsonPaths == {"w_warnings.json", "other.json"}

\* no journal analysis has run
ProblemsIdle ==
    /\ finder = JournalProblemFinder(10, 500)
    /\ file_content = ""
    /\ problems = << >>
    /\ problems_timestamp = None
    /\ problems_outcome = NotCalled

\* RevitWarningsApp.__init__, with nothing on disk
\* the filters and the tree as setup_warnings_tab builds them
ViewIdle ==
    /\ status_filter = "All"
    /\ search_var = ""
    /\ group_mode = TRUE
    /\ tree = << >>

WarningsIdle ==
    /\ html_file = [exists |-> FALSE, table |-> None]
    /\ disk = [p \in JsonPaths |-> None]
    /\ warnings_data = << >>
    /\ json_file_path = None
    /\ dialog = None
    /\ BS4_AVAILABLE = TRUE
    /\ now = 1
    /\ edited = {}
    /\ save_call = None
    /\ loaded = None
    /\ ViewIdle

\* the journal tab after setup_journal_tab, before any file operation
TabIdle ==
    /\ journal_data = None
    /\ worker_log_entries = << >>
    /\ journal_tree = << >>
    /\ journal_filter = "All"
    /\ journal_search_var = ""
    /\ exported = None
    /\ failed = FALSE
    /\ shown = << >>

\* the journal parsers before their first call
ParsersIdle ==
    /\ pc = "idle"
    /\ encoding = 1
    /\ lineno = 0
    /\ last_exception = None
    /\ parsed_data = << >>
    /\ last_timestamp = ""
    /\ models_info = << >>
    /\ current_model_info = EmptyDict
    /\ current_command = ""
    /\ models = << >>
    /\ model_handles = EmptyDict
    /\ categorized_lines = << >>
    /\ header_info = EmptyDict
    /\ current_model = "All models"
    /\ flat_outcome = NotCalled
    /\ models_outcome = NotCalled
    /\ lines = << >>
    /\ entries = << >>
    /\ worker_outcome = NotCalled

InitFiles(files) ==
    /\ ProblemsIdle
    /\ WarningsIdle
    /\ TabIdle
    /\ remembered = None
    /\ fileExists \in BOOLEAN
    /\ fileLines \in (IF fileExists THEN files ELSE {<< >>})
    /\ pc = "idle"
    /\ encoding = 1
    /\ lineno = 0
    /\ last_exception = None
    /\ parsed_data = << >>
    /\ last_timestamp = ""
    /\ models_info = << >>
    /\ current_model_info = EmptyDict
    /\ current_command = ""
    /\ models = << >>
    /\ model_handles = EmptyDict
    /\ categorized_lines = << >>
    /\ header_info = EmptyDict
    /\ current_model = "All models"
    /\ flat_outcome = NotCalled
    /\ models_outcome = NotCalled
    /\ lines = << >>
    /\ entries = << >>
    /\ worker_outcome = NotCalled

InitWith(files) == InitFiles(files) /\ worker_file = None

(***************************************************************************)
(* JournalParser.parse_journal (flat mode).                                *)
(***************************************************************************)
\* a variant that never records the timestamp it has seen
NextLastTimestampStale(tok, last) == last

\* last_timestamp after a line whose timestamp token is tok
NextLastTimestamp(tok, last) == IF tok # None THEN tok[1] ELSE last

\* current_command after the prefix rules
NextCommand(line, command) ==
    LET command_match == IF PrefixCategory(line) = "Command" THEN CommandLabel(line)
                         ELSE None
    IN  IF command_match # None THEN command_match[1] ELSE command

\* a variant that keeps the command on every entry
FlatEntryKeepCommand(category, line, timestamp, command, info) ==
    LET entry == [category |-> category,
                  content |-> line,
                  timestamp |-> timestamp,
                  command |-> command]
    IN  IF category = "Model" /\ info # EmptyDict
        THEN Put(entry, "model_info", info)
        ELSE entry

\* the entry of a line, given its final category and the model info
FlatEntry(category, line, timestamp, command, info) ==
    LET entry == [category |-> category,
                  content |-> line,
                  timestamp |-> timestamp,
                  command |-> IF category = "Command" THEN command ELSE ""]
    IN  IF category = "Model" /\ info # EmptyDict
        THEN Put(entry, "model_info", info)
        ELSE entry

\* a variant that skips blank lines
AppendEntrySkipBlank(data, entry) ==
    IF entry.content = "" THEN data ELSE Append(data, entry)

\* parsed_data.append(entry)
AppendEntry(data, entry) == Append(data, entry)

\* what parse_journal returns after the loop over the lines
FlatSuccess(data) == [status |-> "returned", value |-> data, reported |-> FALSE]

\* what parse_journal does when no encoding worked: show_error, return []
FlatFailure == [status |-> "returned", value |-> << >>, reported |-> TRUE]

ParseJournalCall ==
    /\ pc = "idle"
    /\ pc' = "flat_try"
    /\ encoding' = 1
    /\ last_exception' = None
    /\ lineno' = 0
    /\ UNCHANGED <<fileVars, flatVars, modelsVars, flat_outcome, models_outcome>>
    /\ UNCHANGED nonJournalVars

\* head of the loop over encodings: fresh locals, open the file
ParseJournalOpen ==
    /\ pc = "flat_try"
    /\ FlatFresh
    /\ lineno' = 0
    /\ IF fileExists
       THEN /\ pc' = "flat_loop"
            /\ UNCHANGED last_exception
       ELSE /\ last_exception' = Some("FileNotFoundError")
            /\ pc' = "flat_fail"
    /\ UNCHANGED <<fileVars, encoding, modelsVars, flat_outcome, models_outcome>>
    /\ UNCHANGED nonJournalVars

\* one iteration of "for line in file"
ParseJournalLine ==
    /\ pc = "flat_loop"
    /\ lineno < Len(fileLines)
    /\ LET raw == fileLines[lineno + 1]
           enc == encodings[encoding]
       IN  IF DecodeRaises(enc, raw)
           THEN \* except UnicodeDecodeError: continue
                /\ last_exception' = Some("UnicodeDecodeError")
                /\ encoding' = encoding + 1
                /\ pc' = IF encoding < Len(encodings) THEN "flat_try" ELSE "flat_fail"
                /\ UNCHANGED <<lineno, flatVars>>
           ELSE LET line0 == Strip(Decode(enc, raw))
                    tok == TimestampToken(line0)
                    last == NextLastTimestamp(tok, last_timestamp)
                    timestamp == IF tok # None THEN tok[1] ELSE last_timestamp
                    command == NextCommand(line0, current_command)
                    category == ContentCategory(line0, PrefixCategory(line0))
                    line == GapRewrite(line0)
                    info == IF IsModelLine(line) THEN ModelInfoOf(line, timestamp)
                            ELSE current_model_info
                    recorded == IsModelLine(line) /\ "path" \in DOMAIN info
                    infos == IF recorded THEN Append(models_info, info) ELSE models_info
                    final == IF recorded THEN "Model" ELSE category
                    entry == FlatEntry(final, line, timestamp, command, info)
                IN  /\ last_timestamp' = last
                    /\ current_model_info' = info
                    /\ models_info' = BackFill(infos, line)
                    /\ parsed_data' = AppendEntry(parsed_data, entry)
                    /\ current_command' = IF final = "Command" THEN "" ELSE command
                    /\ lineno' = lineno + 1
                    /\ UNCHANGED <<pc, encoding, last_exception>>
    /\ UNCHANGED <<fileVars, modelsVars, flat_outcome, models_outcome>>
    /\ UNCHANGED nonJournalVars

\* the file is exhausted: return parsed_data
ParseJournalReturn ==
    /\ pc = "flat_loop"
    /\ lineno = Len(fileLines)
    /\ flat_outcome' = FlatSuccess(parsed_data)
    /\ pc' = "idle"
    /\ FlatFresh
    /\ lineno' = 0
    /\ encoding' = 1
    /\ last_exception' = None
    /\ UNCHANGED <<fileVars, modelsVars, models_outcome>>
    /\ UNCHANGED nonJournalVars

\* after the loop over encodings: report the error, return []
ParseJournalFail ==
    /\ pc = "flat_fail"
    /\ flat_outcome' = FlatFailure
    /\ pc' = "idle"
    /\ FlatFresh
    /\ lineno' = 0
    /\ encoding' = 1
    /\ last_exception' = None
    /\ UNCHANGED <<fileVars, modelsVars, models_outcome>>
    /\ UNCHANGED nonJournalVars

(***************************************************************************)
(* JournalParser.parse_journal_with_models (model-attributed mode).        *)
(***************************************************************************)
\* a variant that records each path once
NextModelsUnique(ms, created) ==
    IF created # None /\ \A k \in 1..Len(ms) : ms[k] # created[1]
    THEN Append(ms, created[1])
    ELSE ms

\* models after a line whose created model is created (None without one)
NextModels(ms, created) ==
    IF created # None THEN Append(ms, created[1]) ELSE ms

\* a variant that never switches the current model
NextModelStale(model, created) == model

\* current_model after a line whose created model is created
NextModel(model, created) ==
    IF created # None THEN created[1] ELSE model

\* a variant that keeps the first mapping of a handle
NextHandlesFirst(handles, handle, model) ==
    IF handle # None /\ handle[1] \notin DOMAIN handles
    THEN Put(handles, handle[1], model)
    ELSE handles

\* model_handles after a line whose handle token is handle (None without
\* one), read under the current model
NextHandles(handles, handle, model) ==
    IF handle # None THEN Put(handles, handle[1], model) ELSE handles

\* the timestamp field of an entry
ModelsTimestamp(line) == TimestampToken(line)

\* the entry of a line
ModelsEntry(line, model) ==
    [timestamp |-> ModelsTimestamp(line),
     category |-> ModelsCategory(line),
     content |-> line,
     model |-> model]

\* what parse_journal_with_models returns
ModelsSuccess(header, ms, es) ==
    [status |-> "returned",
     value |-> [header |-> header, models |-> <<"All models">> \o ms, lines |-> es]]

\* a variant that returns an empty document instead of raising
ModelsFailureSilent ==
    [status |-> "returned",
     value |-> [header |-> EmptyDict, models |-> <<"All models">>, lines |-> << >>]]

\* what it does when every encoding failed: raise RuntimeError
ModelsFailure == [status |-> "raised", value |-> "RuntimeError"]

ParseModelsCall ==
    /\ pc = "idle"
    /\ pc' = "models_try"
    /\ encoding' = 1
    /\ last_exception' = None
    /\ lineno' = 0
    /\ UNCHANGED <<fileVars, flatVars, modelsVars, flat_outcome, models_outcome>>
    /\ UNCHANGED nonJournalVars

\* body of the loop over encodings up to the loop over the lines
ParseModelsOpen ==
    /\ pc = "models_try"
    /\ encoding <= Len(encodings)
    /\ IF fileExists /\ \A k \in 1..Len(fileLines) : ~DecodeRaises(encodings[encoding], fileLines[k])
       THEN /\ ModelsFresh
            /\ pc' = "models_loop"
            /\ UNCHANGED <<encoding, last_exception>>
       ELSE \* except Exception: continue
            /\ last_exception' = Some(IF fileExists THEN "UnicodeDecodeError"
                                      ELSE "FileNotFoundError")
            /\ encoding' = encoding + 1
            /\ UNCHANGED <<pc, modelsVars>>
    /\ UNCHANGED <<fileVars, lineno, flatVars, flat_outcome, models_outcome>>
    /\ UNCHANGED nonJournalVars

\* one iteration of "for line in lines"
ParseModelsLine ==
    /\ pc = "models_loop"
    /\ lineno < Len(fileLines)
    /\ LET line == Strip(Decode(encodings[encoding], fileLines[lineno + 1]))
           created == CreatedModel(line)
           model == NextModel(current_model, created)
       IN  /\ header_info' = HeaderStep(header_info, line)
           /\ models' = NextModels(models, created)
           /\ current_model' = model
           /\ model_handles' = NextHandles(model_handles, Handle(line), model)
           /\ categorized_lines' = Append(categorized_lines, ModelsEntry(line, model))
           /\ lineno' = lineno + 1
    /\ UNCHANGED <<fileVars, pc, encoding, last_exception, flatVars,
                   flat_outcome, models_outcome>>
    /\ UNCHANGED nonJournalVars

ParseModelsReturn ==
    /\ pc = "models_loop"
    /\ lineno = Len(fileLines)
    /\ models_outcome' = ModelsSuccess(header_info, models, categorized_lines)
    /\ pc' = "idle"
    /\ ModelsFresh
    /\ lineno' = 0
    /\ encoding' = 1
    /\ last_exception' = None
    /\ UNCHANGED <<fileVars, flatVars, flat_outcome>>
    /\ UNCHANGED nonJournalVars

\* after the loop over encodings
ParseModelsRaise ==
    /\ pc = "models_try"
    /\ encoding > Len(encodings)
    /\ last_exception # None
    /\ models_outcome' = ModelsFailure
    /\ pc' = "idle"
    /\ encoding' = 1
    /\ last_exception' = None
    /\ UNCHANGED <<fileVars, lineno, flatVars, modelsVars, flat_outcome>>
    /\ UNCHANGED nonJournalVars

(***************************************************************************)
(* WorkerLogParser.parse_worker_log.                                       *)
(***************************************************************************)
\* the encodings open(file_path, 'r') may use: the platform's default
LocaleEncodings == {"utf-8", "cp1252"}

\* whether reading raw under enc with the default errors='strict' raises
StrictRaises(enc, raw) == enc = "utf-8" /\ Contains(raw, ByteE9)

\* s.split(' ', 2)
SplitTwice(s) ==
    LET a == Find(s, " ")
        r == SubSeq(s, a + 1, Len(s))
        b == Find(r, " ")
    IN  IF a = 0 THEN <<s>>
        ELSE IF b = 0 THEN <<SubSeq(s, 1, a - 1), r>>
        ELSE <<SubSeq(s, 1, a - 1), SubSeq(r, 1, b - 1), SubSeq(r, b + 1, Len(r))>>

\* entries after a line
NextEntries(es, line) ==
    LET parts == SplitTwice(Strip(line))
    IN  IF Len(parts) = 3
        THEN Append(es, [timestamp |-> parts[1], level |-> parts[2], message |-> parts[3]])
        ELSE es

\* return None
WorkerNone == [status |-> "returned", value |-> None]

\* return {'entries': entries}
WorkerSuccess(es) == [status |-> "returned", value |-> Some([entries |-> es])]

\* the call up to the loop: existence check, open, readlines
ParseWorkerLogCall ==
    /\ pc = "idle"
    /\ \E enc \in LocaleEncodings :
          IF fileExists /\ \A k \in 1..Len(fileLines) : ~StrictRaises(enc, fileLines[k])
          THEN /\ lines' = [k \in 1..Len(fileLines) |-> Decode(enc, fileLines[k])]
               /\ entries' = << >>
               /\ lineno' = 0
               /\ pc' = "worker_loop"
               /\ UNCHANGED worker_outcome
          ELSE /\ worker_outcome' = WorkerNone
               /\ UNCHANGED <<pc, lineno, lines, entries>>
    /\ UNCHANGED <<fileVars, nonWorkerVars>>

\* one iteration of "for line in lines"
ParseWorkerLogLine ==
    /\ pc = "worker_loop"
    /\ lineno < Len(lines)
    /\ entries' = NextEntries(entries, lines[lineno + 1])
    /\ lineno' = lineno + 1
    /\ UNCHANGED <<fileVars, pc, lines, worker_outcome, nonWorkerVars>>

ParseWorkerLogReturn ==
    /\ pc = "worker_loop"
    /\ lineno = Len(lines)
    /\ worker_outcome' = WorkerSuccess(entries)
    /\ pc' = "idle"
    /\ lines' = << >>
    /\ entries' = << >>
    /\ lineno' = 0
    /\ UNCHANGED <<fileVars, nonWorkerVars>>

(***************************************************************************)
(* The journal tab: one tree view, filled by the journal loader, the       *)
(* filters, the worker-log loader and the problem analysis.  A row is the  *)
(* tuple of values handed to journal_tree.insert, as Tk keeps them: each   *)
(* value converted with str().                                             *)
(***************************************************************************)
\* the length at which the views cut a text
PreviewLimit == 100

\* text[:100] + ('...' if len(text) > 100 else '')
Preview(text) ==
    IF Len(text) > PreviewLimit THEN SubSeq(text, 1, PreviewLimit) \o "..." ELSE text

\* str() of an optional text
TkStr(value) == IF value = None THEN "None" ELSE value[1]

\* the values filter_journal_by_model and apply_journal_filter insert
JournalRow(entry) == <<TkStr(entry.timestamp), entry.category, Preview(entry.content)>>

JournalRows(es) == [k \in DOMAIN es |-> JournalRow(es[k])]

\* the values update_worker_log_view inserts
WorkerRow(entry) == <<entry.timestamp, entry.level, Preview(entry.message)>>

WorkerRows(es) == [k \in DOMAIN es |-> WorkerRow(es[k])]

\* the values update_journal_tree inserts
ProblemRow(problem) ==
    <<problem.timestamp, problem.type, problem.source, Preview(problem.description)>>

ProblemRows(ps) == [k \in DOMAIN ps |-> ProblemRow(ps[k])]

(***************************************************************************)
(* JournalProblemFinder.find_problems, called by analyze_journal.          *)
(***************************************************************************)
DigitValue(c) ==
    CASE c = "0" -> 0 [] c = "1" -> 1 [] c = "2" -> 2 [] c = "3" -> 3 [] c = "4" -> 4
      [] c = "5" -> 5 [] c = "6" -> 6 [] c = "7" -> 7 [] c = "8" -> 8 [] c = "9" -> 9

DigitChar(d) ==
    CASE d = 0 -> "0" [] d = 1 -> "1" [] d = 2 -> "2" [] d = 3 -> "3" [] d = 4 -> "4"
      [] d = 5 -> "5" [] d = 6 -> "6" [] d = 7 -> "7" [] d = 8 -> "8" [] d = 9 -> "9"

\* int(s) for a string of decimal digits
RECURSIVE ParseInt(_)
ParseInt(s) ==
    IF s = "" THEN 0
    ELSE 10 * ParseInt(SubSeq(s, 1, Len(s) - 1)) + DigitValue(CharAt(s, Len(s)))

\* str(n) for n >= 0
RECURSIVE IntToStr(_)
IntToStr(n) == IF n < 10 THEN DigitChar(n) ELSE IntToStr(n \div 10) \o DigitChar(n % 10)

\* str.splitlines() over the line boundaries \n, \r\n and \r
RECURSIVE SplitLines(_)
SplitLines(s) ==
    LET ends == {i \in 1..Len(s) : CharAt(s, i) \in {"\n", "\r"}}
    IN  IF s = "" THEN << >>
        ELSE IF ends = {} THEN <<s>>
        ELSE LET e == Min(ends)
                 skip == IF CharAt(s, e) = "\r" /\ e < Len(s) /\ CharAt(s, e + 1) = "\n"
                         THEN 2 ELSE 1
             IN  <<SubSeq(s, 1, e - 1)>> \o SplitLines(SubSeq(s, e + skip, Len(s)))

\* file.read() under encoding='utf-8', errors='replace': the decoded lines,
\* each with its terminator
RECURSIVE ReadText(_)
ReadText(raw) ==
    IF raw = << >> THEN ""
    ELSE Decode("utf-8", Head(raw)) \o "\n" \o ReadText(Tail(raw))

\* re.compile(r"error|exception|fail|cannot", re.IGNORECASE).search(line)
ErrorWords == {"error", "exception", "fail", "cannot"}
MatchesError(line) == \E w \in ErrorWords : Contains(Lower(line), w)

\* re.compile(r"API_WARNING").search(line)
MatchesApiWarning(line) == Contains(line, "API_WARNING")

\* re.compile(r"slightly off axis", re.IGNORECASE).search(line)
MatchesPerformance(line) == Contains(Lower(line), "slightly off axis")

\* r"RAM:.*?Used \+(\d+) MB"
ResourcePat ==
    Lit("RAM:") \o <<StarLazyNot({"\n"})>> \o Lit("Used +") \o <<Plus(Digits)>> \o
    Lit(" MB")

\* resource_match.group(1), None when the line has no match
ResourceMatch(line) == Capture(ResourcePat, 12, line)

\* r"^'C (\d{2}-\w{3}-\d{4} \d{2}:\d{2}:\d{2}\.\d{3});\s*(.*)"
AnchorPat ==
    Lit("'C ") \o <<One(Digits), One(Digits)>> \o Lit("-") \o
    <<One(WordChars), One(WordChars), One(WordChars)>> \o Lit("-") \o
    <<One(Digits), One(Digits), One(Digits), One(Digits)>> \o Lit(" ") \o
    <<One(Digits), One(Digits)>> \o Lit(":") \o <<One(Digits), One(Digits)>> \o
    Lit(":") \o <<One(Digits), One(Digits)>> \o Lit(".") \o
    <<One(Digits), One(Digits), One(Digits)>> \o Lit(";") \o
    <<Star(Whitespace), StarNot({"\n"})>>

\* timestamp_match.group(1) of patterns["TIMESTAMP"].match(line), None
\* when the line does not match at its start
AnchorTimestamp(line) ==
    IF CanMatch(AnchorPat, 1, line, 1)
    THEN Some(Group(line, MatchAt(AnchorPat, 1, line, 1), 4, 28))
    ELSE None

\* a variant that keeps the first anchor it has seen
NextAnchorFirst(anchor, last) == IF last # None THEN last ELSE anchor

\* last_timestamp after the anchor test of a line
NextAnchor(anchor, last) == IF anchor # None THEN anchor ELSE last

\* last_timestamp or "Unknown"
Label(last) == IF last # None /\ last[1] # "" THEN last[1] ELSE "Unknown"

ErrorLimit == 150
PerformanceLimit == 120

\* line[:limit]
Truncate(line, limit) == IF Len(line) > limit THEN SubSeq(line, 1, limit) ELSE line

\* a variant that also marks a line of exactly the limit length
EllipsisAtLimit(line, limit) == IF Len(line) >= limit THEN "..." ELSE ""

\* ("..." if len(line) > limit else "")
Ellipsis(line, limit) == IF Len(line) > limit THEN "..." ELSE ""

ProblemEntry(last, type, source, description) ==
    [timestamp |-> Label(last), type |-> type, source |-> source,
     description |-> description]

\* the Error rule on one line
ErrorProblems(line, last) ==
    IF MatchesError(line)
    THEN <<ProblemEntry(last, "Error", "Journal",
                        Truncate(line, ErrorLimit) \o Ellipsis(line, ErrorLimit))>>
    ELSE << >>

\* the API Warning rule on one line
ApiProblems(line, last) ==
    IF MatchesApiWarning(line)
    THEN <<ProblemEntry(last, "API Warning", "Revit API",
                        Truncate(line, ErrorLimit) \o Ellipsis(line, ErrorLimit))>>
    ELSE << >>

\* the Performance rule on one line
PerformanceProblems(line, last) ==
    IF MatchesPerformance(line)
    THEN <<ProblemEntry(last, "Performance", "Geometry",
                        "Possible performance issue: " \o
                        Truncate(line, PerformanceLimit) \o
                        Ellipsis(line, PerformanceLimit))>>
    ELSE << >>

\* a variant whose threshold is inclusive
ResourceProblemsAtLeast(line, last, ram_spike_mb) ==
    LET resource_match == ResourceMatch(line)
    IN  IF resource_match # None /\ ParseInt(resource_match[1]) >= ram_spike_mb
        THEN <<ProblemEntry(last, "Resource Spike", "Memory Usage",
                            "RAM spike of " \o IntToStr(ParseInt(resource_match[1])) \o
                            " MB detected")>>
        ELSE << >>

\* the Resource Spike rule on one line, for the finder's threshold
ResourceProblems(line, last, ram_spike_mb) ==
    LET resource_match == ResourceMatch(line)
    IN  IF resource_match # None /\ ParseInt(resource_match[1]) > ram_spike_mb
        THEN <<ProblemEntry(last, "Resource Spike", "Memory Usage",
                            "RAM spike of " \o IntToStr(ParseInt(resource_match[1])) \o
                            " MB detected")>>
        ELSE << >>

\* a variant that tests the rules as an if / elif chain
LineProblemsFirstRule(line, last, ram_spike_mb) ==
    IF ErrorProblems(line, last) # << >> THEN ErrorProblems(line, last)
    ELSE IF ApiProblems(line, last) # << >> THEN ApiProblems(line, last)
    ELSE IF PerformanceProblems(line, last) # << >> THEN PerformanceProblems(line, last)
    ELSE ResourceProblems(line, last, ram_spike_mb)

\* the problems one line appends, in the order of the four tests
LineProblems(line, last, ram_spike_mb) ==
    ErrorProblems(line, last) \o ApiProblems(line, last) \o
    PerformanceProblems(line, last) \o ResourceProblems(line, last, ram_spike_mb)

\* analyze_journal: read the file, construct a finder, call find_problems
AnalyzeJournalCall ==
    /\ pc = "idle"
    /\ IF fileExists
       THEN /\ finder' = JournalProblemFinder(10, 500)
            /\ file_content' = ReadText(fileLines)
            /\ problems' = << >>
            /\ problems_timestamp' = None
            /\ lineno' = 0
            /\ pc' = "problems_loop"
            /\ failed' = FALSE
            /\ shown' = << >>
            /\ UNCHANGED problems_outcome
       ELSE \* open() raises: the error is shown, find_problems is not called
            /\ failed' = TRUE
            /\ shown' = <<"error">>
            /\ UNCHANGED <<pc, lineno, problemVars>>
    /\ UNCHANGED <<fileVars, journal_tree, nonProblemVars>>

\* one iteration of "for line in file_content.splitlines()"
FindProblemsLine ==
    /\ pc = "problems_loop"
    /\ LET all == SplitLines(file_content)
       IN  /\ lineno < Len(all)
           /\ LET line == all[lineno + 1]
                  last == NextAnchor(AnchorTimestamp(line), problems_timestamp)
              IN  /\ problems_timestamp' = last
                  /\ problems' = problems \o LineProblems(line, last, finder.ram_spike_mb)
    /\ lineno' = lineno + 1
    /\ UNCHANGED <<fileVars, pc, finder, file_content, problems_outcome, journal_tree,
                   opVars, nonProblemVars>>

\* return problems
FindProblemsReturn ==
    /\ pc = "problems_loop"
    /\ lineno = Len(SplitLines(file_content))
    /\ problems_outcome' = [status |-> "returned", value |-> problems]
    /\ pc' = "idle"
    /\ file_content' = ""
    /\ problems' = << >>
    /\ problems_timestamp' = None
    /\ lineno' = 0
    /\ journal_tree' = ProblemRows(problems)
    /\ UNCHANGED <<fileVars, finder, opVars, nonProblemVars>>

(***************************************************************************)
(* HTMLParser.parse.  An HTML file is modelled by its parse tree: whether  *)
(* it has a <table>, the <tr> rows of the first table in document order,   *)
(* the <td> cells of each row, and the text nodes of each cell (the pieces *)
(* between its tags, <br> included).                                       *)
(***************************************************************************)
\* the text of a node as str(cell) writes it
RECURSIVE HtmlEscape(_)
HtmlEscape(s) ==
    IF s = "" THEN ""
    ELSE (CASE Head(s) = "&" -> "&amp;"
            [] Head(s) = "<" -> "&lt;"
            [] Head(s) = ">" -> "&gt;"
            [] OTHER -> Head(s)) \o HtmlEscape(Tail(s))

\* the text node html.parser builds from written text
RECURSIVE HtmlUnescape(_)
HtmlUnescape(s) ==
    IF s = "" THEN ""
    ELSE IF StartsWith(s, "&amp;") THEN "&" \o HtmlUnescape(SubSeq(s, 6, Len(s)))
    ELSE IF StartsWith(s, "&lt;") THEN "<" \o HtmlUnescape(SubSeq(s, 5, Len(s)))
    ELSE IF StartsWith(s, "&gt;") THEN ">" \o HtmlUnescape(SubSeq(s, 5, Len(s)))
    ELSE Head(s) \o HtmlUnescape(Tail(s))

NonEmpty(s) == s # ""

\* node.stripped_strings: the text nodes stripped, the empty ones left out
StrippedStrings(texts) ==
    SelectSeq([k \in DOMAIN texts |-> Strip(texts[k])], NonEmpty)

RECURSIVE Concat(_)
Concat(ss) == IF ss = << >> THEN "" ELSE Head(ss) \o Concat(Tail(ss))

\* cells[0].get_text(strip=True)
GetText(cell) == Concat(StrippedStrings(cell))

\* [el.strip() for el in BS(str(cells[1]), 'html.parser').stripped_strings]
Elements(cell) ==
    LET sub_soup == [k \in DOMAIN cell |-> HtmlUnescape(HtmlEscape(cell[k]))]
        strings == StrippedStrings(sub_soup)
    IN  [k \in DOMAIN strings |-> Strip(strings[k])]

\* r'id (\d+)'
IdPat == Lit("id ") \o <<Plus(Digits)>>

\* a variant that keeps only the first id of an element
FindAllIdsFirst(el) ==
    LET m == Search(IdPat, el)
    IN  IF m = << >> THEN << >> ELSE <<Group(el, m, 4, 5)>>

\* re.findall(r'id (\d+)', el)
RECURSIVE FindAllIds(_)
FindAllIds(el) ==
    LET m == Search(IdPat, el)
    IN  IF m = << >> THEN << >>
        ELSE <<Group(el, m, 4, 5)>> \o FindAllIds(SubSeq(el, m[5], Len(el)))

\* ids after "for el in elements: ids.extend(...)"
RECURSIVE Ids(_)
Ids(elements) ==
    IF elements = << >> THEN << >>
    ELSE FindAllIds(Head(elements)) \o Ids(Tail(elements))

\* what datetime.now().isoformat() gives at the positions of the clock
Instants == <<"2024-05-01T09:30:00", "2024-05-01T09:30:00.000125">>

\* the warning dict of an accepted row
Warning(i, cells, date) ==
    [index |-> i,
     message |-> GetText(cells[1]),
     elements |-> Elements(cells[2]),
     ids |-> Ids(Elements(cells[2])),
     status |-> "Open",
     created_date |-> date,
     modified_date |-> date]

\* a variant that also accepts rows of more than two cells
AcceptsRowAtLeastTwo(cells) == Len(cells) >= 2

\* len(cells) == 2
AcceptsRow(cells) == Len(cells) = 2

\* the loop "for i, row in enumerate(rows[1:], 1)" from data row i on
RECURSIVE ParseRows(_, _, _)
ParseRows(rows, i, date) ==
    IF rows = << >> THEN << >>
    ELSE (IF AcceptsRow(Head(rows)) THEN <<Warning(i, Head(rows), date)>> ELSE << >>)
             \o ParseRows(Tail(rows), i + 1, date)

\* HTMLParser.parse: the list returned and whether an error was shown
Parse(available, table, date) ==
    IF ~available THEN [value |-> << >>, reported |-> TRUE]
    ELSE IF table = None THEN [value |-> << >>, reported |-> TRUE]
    ELSE [value |-> ParseRows(IF table[1] = << >> THEN << >> ELSE Tail(table[1]), 1, date),
          reported |-> FALSE]

(***************************************************************************)
(* The warnings tab: load_html, load_json, save_json and the detail        *)
(* dialog.  A JSON text is modelled by its structure, an array of objects, *)
(* with every member written as the token json.dump writes.                *)
(***************************************************************************)
\* a variant that writes a backslash as it is
RECURSIVE JsonEscapePlain(_)
JsonEscapePlain(s) ==
    IF s = "" THEN ""
    ELSE (CASE Head(s) = Quote -> "\\\""
            [] Head(s) = "\n" -> "\\n"
            [] Head(s) = "\r" -> "\\r"
            [] Head(s) = "\t" -> "\\t"
            [] OTHER -> Head(s)) \o JsonEscapePlain(Tail(s))

\* the string token json.dump writes with ensure_ascii=False
RECURSIVE JsonEscape(_)
JsonEscape(s) ==
    IF s = "" THEN ""
    ELSE (CASE Head(s) = Quote -> "\\\""
            [] Head(s) = "\\" -> "\\\\"
            [] Head(s) = "\n" -> "\\n"
            [] Head(s) = "\r" -> "\\r"
            [] Head(s) = "\t" -> "\\t"
            [] OTHER -> Head(s)) \o JsonEscape(Tail(s))

JsonString(s) == Quote \o JsonEscape(s) \o Quote

\* the text of a string token between its quotes, as json.load reads it
RECURSIVE JsonUnescape(_)
JsonUnescape(s) ==
    IF s = "" THEN ""
    ELSE IF Head(s) = "\\" /\ Len(s) >= 2
         THEN (CASE CharAt(s, 2) = "n" -> "\n"
                 [] CharAt(s, 2) = "r" -> "\r"
                 [] CharAt(s, 2) = "t" -> "\t"
                 [] OTHER -> CharAt(s, 2)) \o JsonUnescape(SubSeq(s, 3, Len(s)))
         ELSE Head(s) \o JsonUnescape(Tail(s))

\* the value json.load builds from a token: a str or an int
JsonValue(token) ==
    IF Head(token) = Quote THEN JsonUnescape(SubSeq(token, 2, Len(token) - 1))
    ELSE ParseInt(token)

\* json.dump(warnings_data, file, indent=2, ensure_ascii=False)
JsonDump(data) ==
    [k \in DOMAIN data |->
        [index |-> IntToStr(data[k].index),
         message |-> JsonString(data[k].message),
         elements |-> [j \in DOMAIN data[k].elements |-> JsonString(data[k].elements[j])],
         ids |-> [j \in DOMAIN data[k].ids |-> JsonString(data[k].ids[j])],
         status |-> JsonString(data[k].status),
         created_date |-> JsonString(data[k].created_date),
         modified_date |-> JsonString(data[k].modified_date)]]

\* json.load(file)
JsonLoad(text) ==
    [k \in DOMAIN text |->
        [index |-> JsonValue(text[k].index),
         message |-> JsonValue(text[k].message),
         elements |-> [j \in DOMAIN text[k].elements |-> JsonValue(text[k].elements[j])],
         ids |-> [j \in DOMAIN text[k].ids |-> JsonValue(text[k].ids[j])],
         status |-> JsonValue(text[k].status),
         created_date |-> JsonValue(text[k].created_date),
         modified_date |-> JsonValue(text[k].modified_date)]]

\* the HTML file the user selects
HtmlPath == "w.html"

\* os.path.join(dirname, f"{splitext(basename)[0]}_warnings.json"), in one
\* directory
JsonPathFor(path) ==
    LET dots == {k \in 1..Len(path) : CharAt(path, k) = "."}
        base == IF dots = {} THEN path ELSE SubSeq(path, 1, Max(dots) - 1)
    IN  base \o "_warnings.json"

\* save_json on the given data, path and disk; chosen is what the save
\* dialog would answer.  Gives the disk and the path afterwards, and
\* whether the file was written.
SaveJsonResult(data, path, chosen, files) ==
    IF data = << >>
    THEN \* show_warning("No data to save"); return
         [disk |-> files, path |-> path, written |-> FALSE]
    ELSE LET target == IF path = None THEN chosen ELSE path
         IN  IF target = None
             THEN [disk |-> files, path |-> None, written |-> FALSE]
             ELSE [disk |-> [files EXCEPT ![target[1]] = Some(JsonDump(data))],
                   path |-> target, written |-> TRUE]

\* sep.join(ss)
RECURSIVE JoinWith(_, _)
JoinWith(ss, sep) ==
    IF ss = << >> THEN ""
    ELSE IF Len(ss) = 1 THEN ss[1]
    ELSE ss[1] \o sep \o JoinWith(Tail(ss), sep)

\* get_status_tags(status)
StatusTags(status) ==
    IF status = "Open" THEN <<"open">>
    ELSE IF status = "In Review" THEN <<"in_review">>
    ELSE IF status = "Close" THEN <<"close">>
    ELSE << >>

\* get_filtered_data(): a new list of the warnings the filters keep
GetFilteredData(data, filter, text) ==
    LET search_text == Lower(text)
        Kept(w) ==
            /\ filter = "All" \/ w.status = filter
            /\ search_text = "" \/ Contains(Lower(w.message), search_text)
    IN  SelectSeq(data, Kept)

\* the tree item of one warning
WarningItem(w) ==
    [text |-> "Warning #" \o IntToStr(w.index),
     values |-> <<IntToStr(w.index), w.status, Preview(w.message), JoinWith(w.ids, ", ")>>,
     tags |-> StatusTags(w.status),
     children |-> << >>]

\* populate_tree_flat(filtered_data)
PopulateTreeFlat(ws) == [k \in DOMAIN ws |-> WarningItem(ws[k])]

\* the keys of group_warnings_by_message(warnings), in insertion order
RECURSIVE GroupMessages(_)
GroupMessages(ws) ==
    IF ws = << >> THEN << >>
    ELSE LET Other(m) == m # Head(ws).message
         IN  <<Head(ws).message>> \o SelectSeq(GroupMessages(Tail(ws)), Other)

\* the warnings of one group
GroupOf(ws, message) ==
    LET Same(w) == w.message = message
    IN  SelectSeq(ws, Same)

CountStatus(group, status) == Cardinality({k \in DOMAIN group : group[k].status = status})

\* get_group_status_summary(warnings_group)
GroupStatusSummary(group) ==
    LET Present(status) == CountStatus(group, status) > 0
        Part(status) == status \o ": " \o IntToStr(CountStatus(group, status))
        present == SelectSeq(<<"Open", "In Review", "Close">>, Present)
    IN  [main |-> IF Present("Open") THEN "Open"
                  ELSE IF Present("In Review") THEN "In Review"
                  ELSE "Close",
         summary |-> JoinWith([k \in DOMAIN present |-> Part(present[k])], " | ")]

\* the number of ids of a group
RECURSIVE CountIds(_)
CountIds(group) == IF group = << >> THEN 0 ELSE Len(Head(group).ids) + CountIds(Tail(group))

\* the length at which the text of a group item is cut
GroupTextLimit == 80

\* the tree item of a group, with its warnings as children
GroupItem(group) ==
    LET message == group[1].message
        status == GroupStatusSummary(group)
    IN  [text |-> IF Len(message) > GroupTextLimit
                  THEN SubSeq(message, 1, GroupTextLimit) \o "..." ELSE message,
         values |-> <<IntToStr(Len(group)), status.summary,
                      "Group: " \o IntToStr(Len(group)) \o " warning(s)",
                      IntToStr(CountIds(group)) \o " ID(s)">>,
         tags |-> StatusTags(status.main),
         children |-> PopulateTreeFlat(group)]

\* populate_tree_grouped(filtered_data)
PopulateTreeGrouped(ws) ==
    LET messages == GroupMessages(ws)
    IN  [k \in DOMAIN messages |-> GroupItem(GroupOf(ws, messages[k]))]

\* the tree after update_tree()
UpdateTree(data, filter, text, grouped) ==
    IF data = << >> THEN << >>
    ELSE IF grouped THEN PopulateTreeGrouped(GetFilteredData(data, filter, text))
    ELSE PopulateTreeFlat(GetFilteredData(data, filter, text))

\* the values of the Status combobox of the filters
StatusFilters == {"All", "Open", "In Review", "Close"}

\* texts typed in the Search entry of the warnings tab
WarningSearchTexts == {"", "ROOM"}

\* a status is picked in the filter or the search text is edited
apply_filter ==
    /\ dialog = None
    /\ \E filter \in StatusFilters, text \in WarningSearchTexts :
          /\ filter = status_filter \/ text = search_var
          /\ status_filter' = filter
          /\ search_var' = text
          /\ tree' = UpdateTree(warnings_data, filter, text, group_mode)
    /\ loaded' = None
    /\ UNCHANGED <<html_file, disk, warnings_data, json_file_path, dialog, BS4_AVAILABLE,
                   now, edited, save_call, group_mode, opVars, nonWarningVars>>

\* the Grouped View checkbox
toggle_group_mode ==
    /\ dialog = None
    /\ group_mode' = ~group_mode
    /\ tree' = UpdateTree(warnings_data, status_filter, search_var, ~group_mode)
    /\ loaded' = None
    /\ UNCHANGED <<html_file, disk, warnings_data, json_file_path, dialog, BS4_AVAILABLE,
                   now, edited, save_call, status_filter, search_var, opVars,
                   nonWarningVars>>

\* int(values[0]) of the tree items that stand for one warning: the
\* children of the groups, or every item of the flat list
ItemIndexes(items, grouped) ==
    IF grouped
    THEN UNION {{ParseInt(items[g].children[c].values[1]) : c \in DOMAIN items[g].children} :
                   g \in DOMAIN items}
    ELSE {ParseInt(items[k].values[1]) : k \in DOMAIN items}

\* the messages save_json shows: a warning when there is nothing to save
SaveJsonShown(data) == IF data = << >> THEN <<"warning">> ELSE << >>

\* what the history keeps of a call of save_json
SaveCall(data, result) ==
    Some([list |-> data, path |-> result.path, written |-> result.written])

load_html ==
    /\ dialog = None
    /\ IF ~html_file.exists
       THEN \* open() raises: the error is shown
            /\ failed' = TRUE
            /\ shown' = <<"error">>
            /\ UNCHANGED <<warnings_data, json_file_path, disk, edited, save_call, tree>>
       ELSE LET parsed == Parse(BS4_AVAILABLE, html_file.table, Instants[now])
                path == Some(JsonPathFor(HtmlPath))
                saved == SaveJsonResult(parsed.value, path, None, disk)
            IN  /\ warnings_data' = parsed.value
                /\ json_file_path' = saved.path
                /\ disk' = saved.disk
                /\ edited' = {}
                /\ save_call' = SaveCall(parsed.value, saved)
                /\ tree' = UpdateTree(parsed.value, status_filter, search_var, group_mode)
                /\ failed' = parsed.reported
                /\ shown' = (IF parsed.reported THEN <<"error">> ELSE << >>) \o
                             SaveJsonShown(parsed.value)
    /\ loaded' = None
    /\ UNCHANGED <<html_file, dialog, BS4_AVAILABLE, now, status_filter, search_var,
                   group_mode, nonWarningVars>>

save_json ==
    /\ dialog = None
    /\ \E chosen \in {None} \cup {Some(p) : p \in JsonPaths} :
          LET saved == SaveJsonResult(warnings_data, json_file_path, chosen, disk)
          IN  /\ json_file_path' = saved.path
              /\ disk' = saved.disk
              /\ save_call' = SaveCall(warnings_data, saved)
    /\ failed' = FALSE
    /\ shown' = SaveJsonShown(warnings_data)
    /\ loaded' = None
    /\ UNCHANGED <<html_file, warnings_data, dialog, BS4_AVAILABLE, now, edited,
                   viewVars, nonWarningVars>>

load_json ==
    /\ dialog = None
    /\ \E chosen \in {None} \cup {Some(p) : p \in JsonPaths} :
          IF chosen = None
          THEN \* the dialog was cancelled
               /\ failed' = FALSE
               /\ shown' = << >>
               /\ UNCHANGED <<warnings_data, json_file_path, edited, loaded, tree>>
          ELSE IF disk[chosen[1]] = None
          THEN \* open() raises: the error is shown
               /\ loaded' = Some([path |-> chosen, read |-> FALSE])
               /\ failed' = TRUE
               /\ shown' = <<"error">>
               /\ UNCHANGED <<warnings_data, json_file_path, edited, tree>>
          ELSE /\ failed' = FALSE
               /\ shown' = << >>
               /\ warnings_data' = JsonLoad(disk[chosen[1]][1])
               /\ json_file_path' = chosen
               /\ edited' = {}
               /\ loaded' = Some([path |-> chosen, read |-> TRUE])
               /\ tree' = UpdateTree(JsonLoad(disk[chosen[1]][1]), status_filter,
                                     search_var, group_mode)
    /\ UNCHANGED <<html_file, disk, dialog, BS4_AVAILABLE, now, save_call,
                   status_filter, search_var, group_mode, nonWarningVars>>

\* next(w for w in warnings_data if w["index"] == index): its position
FirstWithIndex(data, index) == Min({k \in 1..Len(data) : data[k].index = index})

\* double click on the tree item of a warning
show_warning_details ==
    /\ dialog = None
    /\ \E index \in ItemIndexes(tree, group_mode) :
          dialog' = Some(FirstWithIndex(warnings_data, index))
    /\ loaded' = None
    /\ UNCHANGED <<html_file, disk, warnings_data, json_file_path, BS4_AVAILABLE, now,
                   edited, save_call, viewVars, opVars, nonWarningVars>>

\* a variant whose combobox accepts typed text
StatusChoicesEditable(status) == {"Open", "In Review", "Close", "Closed", status}

\* what status_var.get() can give: the initial value or a value picked in
\* the read-only combobox
StatusChoices(status) == {"Open", "In Review", "Close", status}

\* a variant that also stamps the creation date
SaveChangesStampBoth(warning, status, date) ==
    [warning EXCEPT !.status = status, !.modified_date = date, !.created_date = date]

\* the assignments of save_changes on the dialog's warning
SaveChanges(warning, status, date) ==
    [warning EXCEPT !.status = status, !.modified_date = date]

\* the Save button of the dialog
save_changes ==
    /\ dialog # None
    /\ \E status \in StatusChoices(warnings_data[dialog[1]].status) :
          warnings_data' = [warnings_data EXCEPT
                               ![dialog[1]] = SaveChanges(@, status, Instants[now])]
    /\ tree' = UpdateTree(warnings_data', status_filter, search_var, group_mode)
    /\ edited' = edited \cup {dialog[1]}
    /\ dialog' = None
    /\ loaded' = None
    /\ UNCHANGED <<html_file, disk, json_file_path, BS4_AVAILABLE, now, save_call,
                   status_filter, search_var, group_mode, opVars, nonWarningVars>>

\* the Cancel button of the dialog
cancel_changes ==
    /\ dialog # None
    /\ dialog' = None
    /\ loaded' = None
    /\ UNCHANGED <<html_file, disk, warnings_data, json_file_path, BS4_AVAILABLE, now,
                   edited, save_call, viewVars, opVars, nonWarningVars>>

\* time passes
Tick ==
    /\ now < Len(Instants)
    /\ now' = now + 1
    /\ UNCHANGED <<html_file, disk, warnings_data, json_file_path, dialog, BS4_AVAILABLE,
                   edited, save_call, loaded, viewVars, opVars, nonWarningVars>>

(***************************************************************************)
(* The journal tab's operations: load_journal_file, load_worker_log, the   *)
(* filters and export_journal_filtered.  Each is one handler of the Tk     *)
(* event loop and runs to its end before the next event; the parsers it    *)
(* calls are computed with the operators of their line steps.              *)
(***************************************************************************)
\* the locals of parse_journal_with_models after one more stripped line
ModelsStep(state, line) ==
    LET created == CreatedModel(line)
        model == NextModel(state.current_model, created)
    IN  [header_info |-> HeaderStep(state.header_info, line),
         models |-> NextModels(state.models, created),
         current_model |-> model,
         model_handles |-> NextHandles(state.model_handles, Handle(line), model),
         categorized_lines |-> Append(state.categorized_lines, ModelsEntry(line, model))]

\* the locals after "for line in lines"
RECURSIVE ModelsRun(_, _)
ModelsRun(state, ls) ==
    IF ls = << >> THEN state ELSE ModelsRun(ModelsStep(state, Head(ls)), Tail(ls))

\* parse_journal_with_models(file_path): the first encoding that reads the
\* file gives the document, and RuntimeError is raised when none does
ParseJournalWithModels(exists, raw) ==
    LET reads == {e \in 1..Len(encodings) :
                     exists /\ \A k \in 1..Len(raw) : ~DecodeRaises(encodings[e], raw[k])}
    IN  IF reads = {} THEN ModelsFailure
        ELSE LET enc == encodings[Min(reads)]
                 final == ModelsRun([header_info |-> EmptyDict, models |-> << >>,
                                     current_model |-> "All models",
                                     model_handles |-> EmptyDict,
                                     categorized_lines |-> << >>],
                                    [k \in 1..Len(raw) |-> Strip(Decode(enc, raw[k]))])
             IN  ModelsSuccess(final.header_info, final.models, final.categorized_lines)

\* the entries after "for line in lines"
RECURSIVE WorkerRun(_, _)
WorkerRun(es, ls) == IF ls = << >> THEN es ELSE WorkerRun(NextEntries(es, Head(ls)), Tail(ls))

\* parse_worker_log(file_path) under the platform's encoding enc
ParseWorkerLog(exists, raw, enc) ==
    IF exists /\ \A k \in 1..Len(raw) : ~StrictRaises(enc, raw[k])
    THEN WorkerSuccess(WorkerRun(<< >>, [k \in 1..Len(raw) |-> Decode(enc, raw[k])]))
    ELSE WorkerNone

\* s.replace(old, new)
RECURSIVE Replace(_, _, _)
Replace(s, old, new) ==
    IF Len(s) < Len(old) \/ old = "" THEN s
    ELSE IF SubSeq(s, 1, Len(old)) = old
         THEN new \o Replace(SubSeq(s, Len(old) + 1, Len(s)), old, new)
         ELSE SubSeq(s, 1, 1) \o Replace(SubSeq(s, 2, Len(s)), old, new)

\* file_path.replace("journal", "worker1.log")
WorkerLogPathFor(path) == Replace(path, "journal", "worker1.log")

\* names a journal file can have in the file dialog
JournalPaths == {"journal.0001.txt", "jrn.txt"}

\* load_worker_log(file_path) on a file (None when it does not exist):
\* the entries and the tree afterwards, whether parsing failed and what
\* was shown
LoadWorkerLog(log, enc, es, items) ==
    IF log = None
    THEN \* logger.warning; return
         [entries |-> es, tree |-> items, failed |-> FALSE, shown |-> << >>]
    ELSE LET parsed == ParseWorkerLog(TRUE, log[1], enc)
         IN  IF parsed.value = None
             THEN \* journal_info_label: "Failed to load worker log file."
                  [entries |-> es, tree |-> items, failed |-> TRUE, shown |-> <<"label">>]
             ELSE [entries |-> parsed.value[1].entries,
                   tree |-> WorkerRows(parsed.value[1].entries),
                   failed |-> FALSE, shown |-> << >>]

\* the file behind the path of the file dialog
SelectedFile == IF fileExists THEN Some(fileLines) ELSE None

\* the Load Journal button
load_journal_file ==
    /\ pc = "idle"
    /\ LET outcome == ParseJournalWithModels(fileExists, fileLines)
       IN  IF outcome.status = "raised"
           THEN \* except Exception: show_error
                /\ failed' = TRUE
                /\ shown' = <<"error">>
                /\ UNCHANGED <<journal_data, worker_log_entries, journal_tree>>
           ELSE LET \* filter_journal_by_model("All models")
                    all == JournalRows(outcome.value.lines)
                IN  \E path \in JournalPaths, enc \in LocaleEncodings :
                       LET log == IF WorkerLogPathFor(path) = path THEN SelectedFile
                                  ELSE worker_file
                           worker == LoadWorkerLog(log, enc, worker_log_entries, all)
                       IN  /\ journal_data' = Some(outcome.value)
                           /\ worker_log_entries' = worker.entries
                           /\ journal_tree' = worker.tree
                           /\ failed' = worker.failed
                           \* the label is set again: "Loaded journal file: ..."
                           /\ shown' = << >>
    /\ UNCHANGED <<fileVars, pc, loopVars, flatVars, modelsVars, flat_outcome,
                   models_outcome, workerVars, problemVars, warningVars, remembered,
                   worker_file, journal_filter, journal_search_var, exported>>

\* the Load Worker Log button
load_worker_log ==
    /\ pc = "idle"
    /\ \E enc \in LocaleEncodings :
          LET worker == LoadWorkerLog(SelectedFile, enc, worker_log_entries, journal_tree)
          IN  /\ worker_log_entries' = worker.entries
              /\ journal_tree' = worker.tree
              /\ failed' = worker.failed
              /\ shown' = worker.shown
    /\ UNCHANGED <<fileVars, pc, loopVars, flatVars, modelsVars, flat_outcome,
                   models_outcome, workerVars, problemVars, warningVars, remembered,
                   worker_file, journal_data, journal_filter, journal_search_var,
                   exported>>

\* the entries of a model; "All models" keeps every entry
ModelEntries(es, selected_model) ==
    LET Kept(entry) == selected_model = "All models" \/ entry.model = selected_model
    IN  SelectSeq(es, Kept)

\* a model is picked in model_selector
filter_journal_by_model ==
    /\ pc = "idle"
    /\ IF journal_data = None
       THEN journal_tree' = << >>
       ELSE \E k \in 1..Len(journal_data[1].models) :
               journal_tree' =
                   JournalRows(ModelEntries(journal_data[1].lines, journal_data[1].models[k]))
    /\ UNCHANGED <<fileVars, pc, loopVars, flatVars, modelsVars, flat_outcome,
                   models_outcome, workerVars, problemVars, warningVars, remembered,
                   worker_file, journal_data, worker_log_entries, journal_filter,
                   journal_search_var, exported, opVars>>

\* values picked in the Category combobox
CategoryFilters == {"All", "Command", "Model"}

\* texts typed in the Search entry
SearchTexts == {"", "PATH"}

\* the entries apply_journal_filter keeps; time_range is "All" and
\* journal_models is never set, so neither filters
FilteredEntries(es, category_filter, search_text) ==
    LET Kept(entry) ==
            /\ category_filter = "All" \/ entry.category = category_filter
            /\ search_text = "" \/ Contains(Lower(entry.content), search_text)
    IN  SelectSeq(es, Kept)

\* the tree after apply_journal_filter
FilteredTree(data, category_filter, search_text) ==
    IF data = None THEN << >>
    ELSE JournalRows(FilteredEntries(data[1].lines, category_filter, Lower(search_text)))

\* a category is picked or the search text is edited
apply_journal_filter ==
    /\ pc = "idle"
    /\ \E category \in CategoryFilters, text \in SearchTexts :
          /\ category = journal_filter \/ text = journal_search_var
          /\ journal_filter' = category
          /\ journal_search_var' = text
          /\ journal_tree' = FilteredTree(journal_data, category, text)
    /\ UNCHANGED <<fileVars, pc, loopVars, flatVars, modelsVars, flat_outcome,
                   models_outcome, workerVars, problemVars, warningVars, remembered,
                   worker_file, journal_data, worker_log_entries, exported, opVars>>

\* the Clear button
clear_text_filter ==
    /\ pc = "idle"
    /\ journal_search_var' = ""
    /\ journal_tree' = FilteredTree(journal_data, journal_filter, "")
    /\ UNCHANGED <<fileVars, pc, loopVars, flatVars, modelsVars, flat_outcome,
                   models_outcome, workerVars, problemVars, warningVars, remembered,
                   worker_file, journal_data, worker_log_entries, journal_filter,
                   exported, opVars>>

\* values[k] if len(values) > k else None, then "" for a falsy value
ValueAt(values, k) == IF Len(values) >= k THEN values[k] ELSE ""

\* the line export_journal_filtered writes for the values of a tree item
ExportLine(values) ==
    LET timestamp == ValueAt(values, 1)
        category == ValueAt(values, 2)
        command == ValueAt(values, 3)
        content == ValueAt(values, 4)
    IN  IF timestamp # "" /\ category # ""
        THEN "[" \o timestamp \o "] [" \o category \o "]" \o
             (IF command # "" THEN " [" \o command \o "]" ELSE "") \o
             ": " \o content
        ELSE content

\* the entry lines of the exported file, after its header
ExportLines(items) == [k \in DOMAIN items |-> ExportLine(items[k])]

\* the Export button
export_journal_filtered ==
    /\ pc = "idle"
    /\ failed' = FALSE
    /\ IF journal_data = None \/ journal_tree = << >>
       THEN \* show_warning: no journal data, or no entries, to export
            /\ shown' = <<"warning">>
            /\ UNCHANGED exported
       ELSE /\ shown' = << >>
            /\ \E chosen \in BOOLEAN :
                  exported' = IF chosen THEN Some(ExportLines(journal_tree)) ELSE exported
    /\ UNCHANGED <<fileVars, pc, loopVars, flatVars, modelsVars, flat_outcome,
                   models_outcome, workerVars, problemVars, warningVars, remembered,
                   worker_file, journal_data, worker_log_entries, journal_tree,
                   journal_filter, journal_search_var>>

(***************************************************************************)
(* Specifications.                                                         *)
(***************************************************************************)
JournalPool ==
    {"'C 01-Jan-2024 10:00:00.000; x",
     "caf# (this=0x1A)",
     "",
     "  'E 2-Feb-24 1:2:3.4 ModelPath Created Path = \"a%20b.rvt\" (this=0x1A) ",
     "ModelPath Created Path = \"m2.rvt\" (this=0x1A)",
     "'H BIG_GAP 12.5!!! ModelPath Created Path = \"x.txt\" (this=0x2b) (this=0x3C)"}

Init == InitWith(SeqsUpTo(JournalPool, MaxLines))

Next ==
    \/ ParseJournalCall
    \/ ParseJournalOpen
    \/ ParseJournalLine
    \/ ParseJournalReturn
    \/ ParseJournalFail
    \/ ParseModelsCall
    \/ ParseModelsOpen
    \/ ParseModelsLine
    \/ ParseModelsReturn
    \/ ParseModelsRaise

Spec == Init /\ [][Next]_vars

\* journal files of one line: a prefix, a content marker, and possibly a
\* model creation
ClassifyPrefixes ==
    {"", "'C ", "'H ", "'E ", "Jrn.Command \"X\",\"Y\" ", "Jrn.Data ", "' "}

ClassifyMarkers ==
    {"x", "BIG_GAP 1.5!!!", "gap !!!BIG_GAP", "Unrecoverable error", "an Exception",
     "exception occurred", "API_ERROR", "Error posted", "RAM Statistics",
     "VM Statistics", "Delta VM", "Delta RAM", "exception Delta RAM BIG_GAP"}

ClassifySuffixes == {"", " ModelPath Created Path = \"a.rvt\"", " ModelPath Created"}

ClassifyPool ==
    {p \o m \o x : p \in ClassifyPrefixes, m \in ClassifyMarkers, x \in ClassifySuffixes}

InitClassify == InitWith({<<l>> : l \in ClassifyPool})

SpecClassify == InitClassify /\ [][Next]_vars

WorkerPool ==
    {"2024-01-01 INFO hello world",
     "malformed line",
     "",
     "a  b",
     "a\tb\tc",
     " 2024-01-02 WARN x ",
     "2024-01-03 ERROR caf#"}

InitWorker == InitWith(SeqsUpTo(WorkerPool, MaxLines))

NextWorker ==
    \/ ParseWorkerLogCall
    \/ ParseWorkerLogLine
    \/ ParseWorkerLogReturn

SpecWorker == InitWorker /\ [][NextWorker]_vars

\* a string of n copies of the character c
RECURSIVE Repeat(_, _)
Repeat(c, n) ==
    IF n = 0 THEN ""
    ELSE Repeat(c, n \div 2) \o Repeat(c, n \div 2) \o (IF n % 2 = 1 THEN c ELSE "")

\* journal lines for the problem finder: anchors, the four rules, the
\* thresholds and the description limits on both sides
ProblemPool ==
    {"'C 01-Jan-2024 10:00:00.000; error x",
     "'C 02-Feb-2024 11:00:00.000;ok",
     "'C 1-Jan-2024 10:00:00.000; cannot",
     "cannot FAIL",
     "RAM: Used +400 MB",
     "RAM: Used +500 MB",
     "RAM: Used +600 MB",
     "RAM: Used +400 MB Used +600 MB",
     "Error API_WARNING Slightly Off Axis RAM: a Used +0600 MB caf#",
     "error" \o Repeat("x", ErrorLimit - 5),
     "API_WARNING" \o Repeat("y", ErrorLimit - 10),
     "slightly off axis" \o Repeat("z", PerformanceLimit - 17),
     "an exception slightly off axis" \o Repeat("z", PerformanceLimit - 29)}

InitProblems == InitWith(SeqsUpTo(ProblemPool, MaxLines))

NextProblems ==
    \/ AnalyzeJournalCall
    \/ FindProblemsLine
    \/ FindProblemsReturn

SpecProblems == InitProblems /\ [][NextProblems]_vars

(***************************************************************************)
(* Sessions: the user selects one journal file after another and has it    *)
(* parsed by any of the three parsers.                                     *)
(***************************************************************************)
SessionInputs ==
    {[exists |-> FALSE, lines |-> << >>],
     [exists |-> TRUE, lines |-> <<"cannot x (this=0x1A)">>],
     [exists |-> TRUE,
      lines |-> <<"'C 01-Jan-2024 10:00:00.000; ModelPath Created Path = \"m.rvt\"",
                  "Jrn.Command \"A\" , \"B\" (this=0x1A)">>]}

\* what the parsers have returned for the file selected now
Outcomes ==
    [exists |-> fileExists, lines |-> fileLines, flat |-> flat_outcome,
     models |-> models_outcome, problems |-> problems_outcome, between |-> FALSE]

\* filedialog.askopenfilename: the user selects a file.  The history keeps
\* what the parsers returned for the first file of the session, and whether
\* another file has been parsed since.
SelectFile ==
    /\ pc = "idle"
    /\ \E input \in SessionInputs :
          /\ fileExists' = input.exists
          /\ fileLines' = input.lines
    /\ remembered' =
           IF remembered = None THEN Some(Outcomes)
           ELSE IF /\ <<fileExists, fileLines>> # <<remembered[1].exists, remembered[1].lines>>
                   /\ <<flat_outcome, models_outcome, problems_outcome>>
                          # <<NotCalled, NotCalled, NotCalled>>
                THEN Some([remembered[1] EXCEPT !.between = TRUE])
                ELSE remembered
    /\ flat_outcome' = NotCalled
    /\ models_outcome' = NotCalled
    /\ problems_outcome' = NotCalled
    /\ UNCHANGED <<pc, loopVars, flatVars, modelsVars, workerVars, finder, file_content,
                   problems, problems_timestamp, warningVars, tabVars, opVars>>

InitSession == InitWith({input.lines : input \in {i \in SessionInputs : i.exists}})

NextSession ==
    \/ SelectFile
    \/ ParseJournalCall
    \/ ParseJournalOpen
    \/ ParseJournalLine
    \/ ParseJournalReturn
    \/ ParseJournalFail
    \/ ParseModelsCall
    \/ ParseModelsOpen
    \/ ParseModelsLine
    \/ ParseModelsReturn
    \/ ParseModelsRaise
    \/ AnalyzeJournalCall
    \/ FindProblemsLine
    \/ FindProblemsReturn

SpecSession == InitSession /\ [][NextSession]_vars

\* table rows: cells of text nodes.  Two cells with ids (one twice, one
\* after markup characters), three cells, one cell, two cells whose
\* elements have the pattern in upper case, inside a word ('grid 12'), with
\* two spaces, without a space, and twice
WallsRow ==
    << <<" Overlap \"x\" \\ a&b ">>, <<"Walls : id 101", " ", " <w> id 7 and id 101x">> >>

RoomRow ==
    << <<"Room", " not enclosed ">>, <<"ID 9", "grid 12", "id  3", "id4", "caf@ id 30 id 4">> >>

RowPool ==
    {WallsRow,
     << <<"a">>, <<"id 1">>, <<"id 2">> >>,
     << <<"only id 5">> >>,
     RoomRow}

\* the HTML files: missing, without a table, with a table of at most
\* MaxRows rows
HtmlFiles ==
    {[exists |-> FALSE, table |-> None], [exists |-> TRUE, table |-> None]}
    \cup {[exists |-> TRUE, table |-> Some(rows)] : rows \in SeqsUpTo(RowPool, MaxRows)}

\* the warnings tab at start, with the given HTML files and nothing else
\* on disk
InitWarnings(files, old) ==
    /\ ParsersIdle
    /\ ProblemsIdle
    /\ TabIdle
    /\ worker_file = None
    /\ remembered = None
    /\ fileExists = FALSE
    /\ fileLines = << >>
    /\ html_file \in files
    /\ disk \in [JsonPaths -> {None} \cup old]
    /\ warnings_data = << >>
    /\ json_file_path = None
    /\ dialog = None
    /\ now = 1
    /\ edited = {}
    /\ save_call = None
    /\ loaded = None
    /\ ViewIdle

InitHtml == InitWarnings(HtmlFiles, {}) /\ BS4_AVAILABLE \in BOOLEAN

NextHtml ==
    \/ load_html
    \/ Tick

SpecHtml == InitHtml /\ [][NextHtml]_vars

\* the HTML files of the dialog sessions: a header row and two data rows
DialogFiles ==
    {[exists |-> TRUE, table |-> Some(rows)] :
        rows \in {f \in SeqsUpTo(RowPool, 3) : Len(f) = 3 /\ Len(f[2]) = 2}}

InitDialog == InitWarnings(DialogFiles, {}) /\ BS4_AVAILABLE = TRUE

NextDialog ==
    \/ load_html
    \/ show_warning_details
    \/ save_changes
    \/ cancel_changes
    \/ Tick

SpecDialog == InitDialog /\ [][NextDialog]_vars

\* the HTML files of the JSON sessions: without a table, a header row
\* alone, a header row and one data row, a header row and two data rows
JsonFiles ==
    {[exists |-> TRUE, table |-> None],
     [exists |-> TRUE, table |-> Some(<<RoomRow>>)],
     [exists |-> TRUE, table |-> Some(<<RoomRow, WallsRow>>)],
     [exists |-> TRUE, table |-> Some(<<RoomRow, WallsRow, RoomRow>>)]}

\* a warnings file an earlier session has saved
OldWarnings ==
    << [index |-> 3,
       message |-> "Wall \"A\"\\B caf@\ttab",
       elements |-> <<"Walls : id 42">>,
       ids |-> <<"42">>,
       status |-> "Close",
       created_date |-> "2023-12-31T23:59:59.999999",
       modified_date |-> "2024-01-02T08:00:00"] >>

InitJson ==
    /\ InitWarnings(JsonFiles, {Some(JsonDump(OldWarnings))})
    /\ disk["other.json"] # None
    /\ BS4_AVAILABLE = TRUE

NextJson ==
    \/ load_html
    \/ save_json
    \/ load_json
    \/ show_warning_details
    \/ save_changes
    \/ cancel_changes

SpecJson == InitJson /\ [][NextJson]_vars

\* journal files about commands: a command with its two arguments, one
\* without, and command lines that also carry an override marker
CommandPool ==
    {"Jrn.Command \"Ribbon\" , \"Save\"",
     "Jrn.Command \"Internal\" , \"Quit\" exception",
     "Jrn.Command \"KeyboardShortcut\"",
     "Jrn.Command \"A\",\"B\" BIG_GAP 1.5!!!",
     "Jrn.Data \"x\"",
     "' 01-Jan-2024 10:00:00.000; note"}

InitCommand == InitWith(SeqsUpTo(CommandPool, MaxLines))

NextFlat ==
    \/ ParseJournalCall
    \/ ParseJournalOpen
    \/ ParseJournalLine
    \/ ParseJournalReturn
    \/ ParseJournalFail

SpecCommand == InitCommand /\ [][NextFlat]_vars

\* journal files about gaps: with and without the marker, with and without
\* a decimal number right before "!!!"
GapPool ==
    {"  x BIG_GAP 12.5!!! y ",
     "gap !!!BIG_GAP",
     "1.5!!! x",
     "BIG_GAP 12!!!",
     "BIG_GAP 3.1.2!!! 7.5!!!",
     "BIG_GAP 1.5 !!!",
     "plain"}

InitGap == InitWith(SeqsUpTo(GapPool, MaxLines))

SpecGap == InitGap /\ [][NextFlat]_vars

\* journal files about the user name: two users, a line without the comma,
\* and two model creations
UserPool ==
    {"'C User's Name alice, Machine pc1",
     "'C User's Name bob, Machine pc2",
     "User's Name none",
     "ModelPath Created Path = \"m.rvt\"",
     "ModelPath Created Path = \"n.rvt\"",
     "x"}

InitUser == InitWith(SeqsUpTo(UserPool, MaxLines))

SpecUser == InitUser /\ [][NextFlat]_vars

\* journal files about the header: each field, two fields on one line, a
\* user name with and without the quoted form
HeaderPool ==
    {"'H Build: 2024 Branch: main",
     "Branch: dev ",
     "Release: R1 Build: x",
     "Build: 7",
     "' Username , \"bob\"",
     "Username: none",
     "x"}

InitHeader == InitWith(SeqsUpTo(HeaderPool, MaxLines))

NextModelsMode ==
    \/ ParseModelsCall
    \/ ParseModelsOpen
    \/ ParseModelsLine
    \/ ParseModelsReturn
    \/ ParseModelsRaise

SpecHeader == InitHeader /\ [][NextModelsMode]_vars

\* the journal tab: journals with and without timestamps, a command and a
\* created model
ExportPool ==
    {"'C 01-Jan-2024 10:00:00.000; x",
     "'E 01-Jan-2024 10:00:01.000; ModelPath Created Path = \"m.rvt\"",
     "Jrn.Command \"Ribbon\" , \"Save\""}

\* the worker log next to the journal: none, or one that is not UTF-8
WorkerFiles == {None, Some(<<"10:00:00 INFO caf" \o ByteE9>>)}

InitExport ==
    /\ InitFiles(SeqsUpTo(ExportPool, MaxLines))
    /\ fileExists
    /\ worker_file = None

NextExport ==
    \/ load_journal_file
    \/ filter_journal_by_model
    \/ apply_journal_filter
    \/ clear_text_filter
    \/ export_journal_filtered

SpecExport == InitExport /\ [][NextExport]_vars

\* the six file operations on files that can be missing, unreadable or
\* without the expected content
OpsPool ==
    {"'C 01-Jan-2024 10:00:00.000; x",
     "10:00:00 INFO caf" \o ByteE9,
     "Unrecoverable error"}

OpsHtml ==
    {[exists |-> FALSE, table |-> None],
     [exists |-> TRUE, table |-> None]}

InitOps ==
    /\ ParsersIdle
    /\ ProblemsIdle
    /\ TabIdle
    /\ remembered = None
    /\ fileExists \in BOOLEAN
    /\ fileLines \in (IF fileExists THEN {<<l>> : l \in OpsPool} ELSE {<< >>})
    /\ worker_file \in WorkerFiles
    /\ html_file \in OpsHtml
    /\ disk = [p \in JsonPaths |-> IF p = "other.json" THEN Some(JsonDump(OldWarnings))
                                   ELSE None]
    /\ warnings_data = << >>
    /\ json_file_path = None
    /\ dialog = None
    /\ BS4_AVAILABLE = TRUE
    /\ now = 1
    /\ edited = {}
    /\ save_call = None
    /\ loaded = None
    /\ ViewIdle

NextOps ==
    \/ load_journal_file
    \/ load_worker_log
    \/ load_html
    \/ load_json
    \/ save_json
    \/ AnalyzeJournalCall
    \/ FindProblemsLine
    \/ FindProblemsReturn

SpecOps == InitOps /\ [][NextOps]_vars

\* the warnings tab with its filters: an HTML file of a header row and two
\* warnings, and a saved warnings file
ViewFiles == {[exists |-> TRUE, table |-> Some(<<RoomRow, WallsRow, RoomRow>>)]}

InitView ==
    /\ InitWarnings(ViewFiles, {Some(JsonDump(OldWarnings))})
    /\ disk["other.json"] # None
    /\ disk["w_warnings.json"] = None
    /\ BS4_AVAILABLE = TRUE

NextView ==
    \/ load_html
    \/ load_json
    \/ apply_filter
    \/ toggle_group_mode
    \/ show_warning_details
    \/ save_changes
    \/ cancel_changes
    \/ Tick

SpecView == InitView /\ [][NextView]_vars

(***************************************************************************)
(* Properties.                                                             *)
(***************************************************************************)
Range(f) == {f[k] : k \in DOMAIN f}

\* The text of line i of the file.  The timestamps, markers, paths and
\* handles of the lines are ASCII, the same under every candidate encoding.
LineText(i) == Strip(Decode("utf-8", fileLines[i]))

\* a call has returned to its caller with a result
FlatReturned == pc = "idle" /\ flat_outcome.status = "returned" /\ ~flat_outcome.reported
ModelsReturned == pc = "idle" /\ models_outcome.status = "returned"

\* the override categories whose markers a line contains
MarkerCategories(text) ==
    (IF Contains(text, "BIG_GAP") THEN {"BIG GAP"} ELSE {})
    \cup (IF \/ Contains(text, "Unrecoverable error")
             \/ Contains(Lower(text), "exception")
             \/ Contains(text, "API_ERROR")
             \/ Contains(text, "Error posted")
          THEN {"Error"} ELSE {})
    \cup (IF \/ Contains(text, "RAM Statistics")
             \/ Contains(text, "VM Statistics")
             \/ Contains(text, "Delta VM")
             \/ Contains(text, "Delta RAM")
          THEN {"Performance"} ELSE {})

\* a 'ModelPath Created' line with an extractable quoted .rvt path
HasModelPath(text) == Contains(text, "ModelPath Created") /\ RvtPath(text) # None

\* C1 as stated: in flat mode every line that contains an override marker
\* gets an override category (BIG GAP / Error / Performance) of a marker it
\* contains, never a prefix category.
C1_AsStated ==
    FlatReturned =>
        \A i \in 1..Len(flat_outcome.value) :
            MarkerCategories(LineText(i)) # {} =>
                flat_outcome.value[i].category \in MarkerCategories(LineText(i))

\* the timestamp token of each of the first n lines
Tokens(n) == [j \in 1..n |-> TimestampToken(LineText(j))]

\* what the forward fill gives line i, from the tokens of the lines: the
\* token of the last line at or before i that has one, "" when none has
Fill(toks, i) ==
    LET js == {j \in 1..i : toks[j] # None}
    IN  IF js = {} THEN "" ELSE toks[Max(js)][1]

C3_AsStated ==
    ModelsReturned =>
        LET toks == Tokens(Len(models_outcome.value.lines))
        IN  \A i \in 1..Len(models_outcome.value.lines) :
                toks[i] = None =>
                    models_outcome.value.lines[i].timestamp =
                        (IF Fill(toks, i) = "" THEN None ELSE Some(Fill(toks, i)))

\* C4: on a file that cannot be opened, parse_journal_with_models raises and
\* parse_journal reports the error and returns an empty list.
C4_FailureAsymmetry ==
    ~fileExists =>
        /\ models_outcome.status # "none" => models_outcome.status = "raised"
        /\ flat_outcome.status # "none" =>
               /\ flat_outcome.status = "returned"
               /\ flat_outcome.value = << >>
               /\ flat_outcome.reported

C4_Witness ==
    /\ ~fileExists
    /\ models_outcome.status = "raised"
    /\ flat_outcome.status = "returned"
    /\ flat_outcome.reported

\* the first candidate encoding under which the whole file decodes without
\* a decode error
FirstDecoding ==
    encodings[Min({e \in 1..Len(encodings) :
                      \A k \in 1..Len(fileLines) : ~StrictRaises(encodings[e], fileLines[k])})]

\* C5 as stated: the parsers return the decoding of the first candidate, in
\* the order utf-8, latin-1, cp1252, iso-8859-1, that decodes the file
\* without a decode error: latin-1 for bytes that are not valid UTF-8.
C5_AsStated ==
    /\ FlatReturned =>
           \A i \in 1..Len(flat_outcome.value) :
               flat_outcome.value[i].content =
                   GapRewrite(Strip(Decode(FirstDecoding, fileLines[i])))
    /\ ModelsReturned =>
           \A i \in 1..Len(models_outcome.value.lines) :
               models_outcome.value.lines[i].content =
                   Strip(Decode(FirstDecoding, fileLines[i]))

\* the created model of each of the first n lines
Created(n) == [j \in 1..n |-> CreatedModel(LineText(j))]

\* the model current after line i, from the created models of the lines:
\* the decoded path of the last creation line with an extractable path at
\* or before i, else the sentinel
ModelAt(cr, i) ==
    LET js == {j \in 1..i : cr[j] # None}
    IN  IF js = {} THEN "All models" ELSE cr[Max(js)][1]

\* C6: in model-attributed mode the model of every entry is the decoded path
\* of the most recent creation line with an extractable path at or before
\* the entry's line, the sentinel 'All models' before the first such line,
\* and always a member of the returned models list.
C6_ModelAttribution ==
    ModelsReturned =>
        LET cr == Created(Len(models_outcome.value.lines))
        IN  \A i \in 1..Len(models_outcome.value.lines) :
                /\ models_outcome.value.lines[i].model = ModelAt(cr, i)
                /\ models_outcome.value.lines[i].model \in Range(models_outcome.value.models)

C6_Witness ==
    /\ ModelsReturned
    /\ Len(models_outcome.value.lines) = 2
    /\ models_outcome.value.lines[1].model = "All models"
    /\ CreatedModel(LineText(2)) # None
    /\ models_outcome.value.lines[2].model = "a b.rvt"

\* the decoded paths of the creation lines, in order
RECURSIVE CreatedPaths(_, _)
CreatedPaths(cr, n) ==
    IF n = 0 THEN << >> ELSE CreatedPaths(cr, n - 1) \o cr[n]

\* C7: the models list is 'All models' followed by one decoded path per
\* creation line with an extractable path, in file order, repeats kept.
C7_ModelsList ==
    ModelsReturned =>
        models_outcome.value.models =
            <<"All models">> \o CreatedPaths(Created(Len(fileLines)), Len(fileLines))

C7_Witness ==
    /\ ModelsReturned
    /\ Len(models_outcome.value.models) = 3
    /\ models_outcome.value.models[2] = models_outcome.value.models[3]

\* the first handle token of each of the first n lines
Handles(n) == [j \in 1..n |-> Handle(LineText(j))]

\* the lines whose first handle token is h
Occurrences(hs, h) == {j \in DOMAIN hs : hs[j] = Some(h)}

\* C8 as stated: after any prefix of the file the handle map sends every
\* handle seen so far to the model current when the handle first appeared.
C8_AsStated ==
    pc = "models_loop" =>
        LET hs == Handles(lineno)
            cr == Created(lineno)
        IN  \A h \in DOMAIN model_handles :
                model_handles[h] = ModelAt(cr, Min(Occurrences(hs, h)))

\* C8 amended: after any prefix of the file the handle map sends every
\* handle that is the first handle token of a line seen so far to the model
\* current at the last such line, and holds no other handle.
C8_LastWins ==
    pc = "models_loop" =>
        LET hs == Handles(lineno)
            cr == Created(lineno)
        IN  /\ DOMAIN model_handles = {hs[j][1] : j \in {k \in 1..lineno : hs[k] # None}}
            /\ \A h \in DOMAIN model_handles :
                   model_handles[h] = ModelAt(cr, Max(Occurrences(hs, h)))

C8_Witness ==
    /\ pc = "models_loop"
    /\ LET hs == Handles(lineno)
           cr == Created(lineno)
       IN  \E h \in DOMAIN model_handles :
              /\ Cardinality(Occurrences(hs, h)) = 2
              /\ ModelAt(cr, Min(Occurrences(hs, h))) # model_handles[h]

\* whether s ends with p
EndsWith(s, p) == Len(s) >= Len(p) /\ SubSeq(s, Len(s) - Len(p) + 1, Len(s)) = p

\* C9: on success both modes return one entry per line of the file, blank
\* lines included, the i-th entry derived from the i-th line.
C9_OneEntryPerLine ==
    /\ FlatReturned =>
           /\ Len(flat_outcome.value) = Len(fileLines)
           /\ \E enc \in Range(encodings) :
                 \A i \in 1..Len(fileLines) :
                     EndsWith(flat_outcome.value[i].content, Strip(Decode(enc, fileLines[i])))
    /\ ModelsReturned =>
           /\ Len(models_outcome.value.lines) = Len(fileLines)
           /\ \E enc \in Range(encodings) :
                 \A i \in 1..Len(fileLines) :
                     models_outcome.value.lines[i].content = Strip(Decode(enc, fileLines[i]))

C9_Witness ==
    /\ FlatReturned
    /\ ModelsReturned
    /\ Len(fileLines) = 2
    /\ fileLines[1] = ""
    /\ Len(flat_outcome.value) = 2
    /\ Len(models_outcome.value.lines) = 2

\* the number of whitespace-delimited tokens of s
TokenCount(s) ==
    Cardinality({i \in 1..Len(s) :
                    /\ CharAt(s, i) \notin Whitespace
                    /\ (i = 1 \/ CharAt(s, i - 1) \in Whitespace)})

\* C10 as stated: parse_worker_log emits an entry for a line exactly when
\* the line has at least three whitespace-delimited tokens, so the number of
\* entries is the number of such lines.
C10_AsStated ==
    /\ pc = "worker_loop" =>
           Len(entries) = Cardinality({k \in 1..lineno : TokenCount(lines[k]) >= 3})
    /\ (worker_outcome.status = "returned" /\ worker_outcome.value # None) =>
           Len(worker_outcome.value[1].entries) =
               Cardinality({k \in 1..Len(fileLines) : TokenCount(fileLines[k]) >= 3})

\* find_problems has returned to analyze_journal
ProblemsReturned == pc = "idle" /\ problems_outcome.status = "returned"

\* line i of the journal as analyze_journal reads it
ProblemLine(i) == Decode("utf-8", fileLines[i])

IsSpike(p) == p.type = "Resource Spike"

\* the numbers of the lines that carry a RAM figure above the threshold
RECURSIVE SpikeNumbers(_)
SpikeNumbers(n) ==
    IF n = 0 THEN << >>
    ELSE LET m == ResourceMatch(ProblemLine(n))
         IN  SpikeNumbers(n - 1) \o
             (IF m # None /\ ParseInt(m[1]) > finder.ram_spike_mb
              THEN <<ParseInt(m[1])>> ELSE << >>)

\* C14: a Resource Spike problem is emitted for a line with a RAM figure n
\* exactly when n is strictly greater than ram_spike_mb (500 by default):
\* none for 400 and for 500, exactly one for 600, described as
\* 'RAM spike of 600 MB detected'.
C14_RamSpikeThreshold ==
    ProblemsReturned =>
        LET spikes == SelectSeq(problems_outcome.value, IsSpike)
            over == SpikeNumbers(Len(fileLines))
        IN  /\ finder.ram_spike_mb = 500
            /\ Len(spikes) = Len(over)
            /\ \A k \in 1..Len(spikes) :
                   spikes[k].description = "RAM spike of " \o IntToStr(over[k]) \o " MB detected"
            /\ fileLines \in {<<"RAM: Used +400 MB">>, <<"RAM: Used +500 MB">>,
                              <<"RAM: Used +400 MB", "RAM: Used +500 MB">>}
                   => spikes = << >>
            /\ fileLines = <<"RAM: Used +600 MB">>
                   => /\ Len(problems_outcome.value) = 1
                      /\ spikes[1].description = "RAM spike of 600 MB detected"

C14_Witness ==
    /\ ProblemsReturned
    /\ fileLines = <<"RAM: Used +500 MB", "RAM: Used +600 MB">>
    /\ Len(problems_outcome.value) = 1
    /\ problems_outcome.value[1].type = "Resource Spike"
    /\ problems_outcome.value[1].description = "RAM spike of 600 MB detected"

\* the types of the rules a line satisfies, in the order Error, API Warning,
\* Performance, Resource Spike
RuleTypes(line) ==
    (IF MatchesError(line) THEN <<"Error">> ELSE << >>) \o
    (IF MatchesApiWarning(line) THEN <<"API Warning">> ELSE << >>) \o
    (IF MatchesPerformance(line) THEN <<"Performance">> ELSE << >>) \o
    (IF /\ ResourceMatch(line) # None
        /\ ParseInt(ResourceMatch(line)[1]) > finder.ram_spike_mb
     THEN <<"Resource Spike">> ELSE << >>)

\* for the first n lines, in line order: one pair (line number, rule type)
\* per rule the line satisfies
RECURSIVE Attribution(_)
Attribution(n) ==
    IF n = 0 THEN << >>
    ELSE LET types == RuleTypes(ProblemLine(n))
         IN  Attribution(n - 1) \o [k \in 1..Len(types) |-> [line |-> n, type |-> types[k]]]

\* C15: the result is the concatenation, in line order, of one problem per
\* rule each line satisfies, in the order Error, API Warning, Performance,
\* Resource Spike within a line; nothing is merged or dropped.
C15_RulesIndependent ==
    ProblemsReturned =>
        LET expected == Attribution(Len(fileLines))
        IN  /\ Len(problems_outcome.value) = Len(expected)
            /\ \A k \in 1..Len(expected) : problems_outcome.value[k].type = expected[k].type

C15_Witness ==
    /\ ProblemsReturned
    /\ Len(fileLines) = 2
    /\ Len(RuleTypes(ProblemLine(1))) = 4
    /\ fileLines[2] = fileLines[1]
    /\ Len(problems_outcome.value) = 8
    /\ problems_outcome.value[5] = problems_outcome.value[1]

\* the anchor timestamp in force at line i: that of the last anchor line at
\* or before i, "Unknown" when there is none
AnchorLabel(i) ==
    LET js == {j \in 1..i : AnchorTimestamp(ProblemLine(j)) # None}
    IN  IF js = {} THEN "Unknown" ELSE AnchorTimestamp(ProblemLine(Max(js)))[1]

\* C16: every problem is labelled with the timestamp of the most recent
\* anchor line at or before its own line, its own line included, and with
\* 'Unknown' when no anchor line has occurred yet.
C16_AnchorLabels ==
    ProblemsReturned =>
        LET expected == Attribution(Len(fileLines))
        IN  \A k \in 1..Len(problems_outcome.value) :
                k <= Len(expected)
                    => problems_outcome.value[k].timestamp = AnchorLabel(expected[k].line)

C16_Witness ==
    /\ ProblemsReturned
    /\ fileLines = <<"'C 01-Jan-2024 10:00:00.000; error x", "cannot FAIL">>
    /\ Len(problems_outcome.value) = 2
    /\ problems_outcome.value[1].timestamp = "01-Jan-2024 10:00:00.000"
    /\ problems_outcome.value[2].timestamp = "01-Jan-2024 10:00:00.000"

C16_WitnessUnknown ==
    /\ ProblemsReturned
    /\ fileLines = <<"cannot FAIL", "'C 01-Jan-2024 10:00:00.000; error x">>
    /\ problems_outcome.value[1].timestamp = "Unknown"

\* the first limit characters of text, followed by '...' exactly when text
\* is longer than limit
Shortened(text, limit) ==
    IF Len(text) <= limit THEN text ELSE SubSeq(text, 1, limit) \o "..."

\* C17: Error and API Warning descriptions are the first 150 characters of
\* the line, Performance descriptions 'Possible performance issue: ' and
\* the first 120 characters; '...' follows exactly when the line is longer
\* than the limit.
C17_Truncation ==
    ProblemsReturned =>
        LET expected == Attribution(Len(fileLines))
        IN  \A k \in 1..Len(problems_outcome.value) :
                k <= Len(expected) =>
                    LET text == ProblemLine(expected[k].line)
                        p == problems_outcome.value[k]
                    IN  /\ p.type \in {"Error", "API Warning"}
                            => p.description = Shortened(text, 150)
                        /\ p.type = "Performance"
                            => p.description =
                                   "Possible performance issue: " \o Shortened(text, 120)

C17_Witness ==
    /\ ProblemsReturned
    /\ Len(fileLines) = 2
    /\ Len(fileLines[1]) = 150
    /\ Len(fileLines[2]) = 151
    /\ Len(problems_outcome.value) = 2
    /\ problems_outcome.value[1].description = fileLines[1]
    /\ problems_outcome.value[2].description = SubSeq(fileLines[2], 1, 150) \o "..."

C17_WitnessPerformance ==
    /\ ProblemsReturned
    /\ Len(fileLines) = 1
    /\ Len(fileLines[1]) = 121
    /\ \E k \in 1..Len(problems_outcome.value) :
           /\ problems_outcome.value[k].type = "Performance"
           /\ Len(problems_outcome.value[k].description) = 28 + 120 + 3

\* load_html has put the result of HTMLParser.parse in warnings_data
HtmlParsed ==
    /\ html_file.exists
    /\ html_file.table # None
    /\ BS4_AVAILABLE
    /\ save_call # None

\* the data rows of the table: all but the first
DataRows ==
    LET rows == html_file.table[1]
    IN  [k \in 1..(Len(rows) - 1) |-> rows[k + 1]]

\* the positions among the data rows of those with exactly two cells
TwoCellRows == {k \in DOMAIN DataRows : Len(DataRows[k]) = 2}

\* C11 as stated: the k-th Warning returned has index k, whatever rows with
\* another cell count lie between the accepted rows.
C11_AsStated ==
    HtmlParsed => \A k \in 1..Len(warnings_data) : warnings_data[k].index = k

\* the j-th smallest element of a set of numbers
RECURSIVE Nth(_, _)
Nth(S, j) == IF j = 1 THEN Min(S) ELSE Nth(S \ {Min(S)}, j - 1)

\* C12: the first row is ignored; every later row gives exactly one Warning
\* when it has exactly two cells and none otherwise; the Warnings are in
\* document order and as many as the two-cell data rows.
C12_TwoCellRows ==
    HtmlParsed =>
        /\ Len(warnings_data) = Cardinality(TwoCellRows)
        /\ \A k \in 1..Len(warnings_data) :
               k <= Cardinality(TwoCellRows) =>
                   LET cells == DataRows[Nth(TwoCellRows, k)]
                   IN  /\ warnings_data[k].message = Concat(StrippedStrings(cells[1]))
                       /\ warnings_data[k].elements = StrippedStrings(cells[2])

C12_Witness ==
    /\ HtmlParsed
    /\ Len(html_file.table[1]) = 3
    /\ Len(html_file.table[1][1]) = 2
    /\ Len(html_file.table[1][2]) = 3
    /\ Len(html_file.table[1][3]) = 2
    /\ Len(warnings_data) = 1
    /\ warnings_data[1].message = "Roomnot enclosed"

\* the digit strings that follow 'id ' in an element, from left to right
RECURSIVE IdsFrom(_, _)
IdsFrom(el, k) ==
    IF k + 3 > Len(el) THEN << >>
    ELSE IF SubSeq(el, k, k + 2) = "id " /\ CharAt(el, k + 3) \in Digits
         THEN LET stop == Min({j \in (k + 3)..(Len(el) + 1) :
                                  j > Len(el) \/ CharAt(el, j) \notin Digits})
              IN  <<SubSeq(el, k + 3, stop - 1)>> \o IdsFrom(el, stop)
         ELSE IdsFrom(el, k + 1)

RECURSIVE AllIds(_)
AllIds(elements) ==
    IF elements = << >> THEN << >>
    ELSE IdsFrom(Head(elements), 1) \o AllIds(Tail(elements))

\* C13: the ids of a Warning are the concatenation, over its elements in
\* order, of the digit strings that the pattern 'id <digits>' matches in
\* each element from left to right, repeated ids kept; an element without
\* the pattern gives none.
C13_IdsInOrder ==
    HtmlParsed =>
        \A k \in 1..Len(warnings_data) :
            warnings_data[k].ids = AllIds(warnings_data[k].elements)

C13_Witness ==
    /\ HtmlParsed
    /\ Len(warnings_data) = 2
    /\ warnings_data[1].elements = <<"Walls : id 101", "<w> id 7 and id 101x">>
    /\ warnings_data[1].ids = <<"101", "7", "101">>
    /\ warnings_data[2].elements = <<"ID 9", "grid 12", "id  3", "id4", "caf@ id 30 id 4">>
    /\ warnings_data[2].ids = <<"12", "30", "4">>

\* C19: after any sequence of HTML parses and of Save / Cancel in the detail
\* dialog, every Warning's status is Open, In Review or Close, and a Warning
\* whose status the dialog has never saved is Open.
C19_StatusDomain ==
    \A k \in 1..Len(warnings_data) :
        /\ warnings_data[k].status \in {"Open", "In Review", "Close"}
        /\ k \notin edited => warnings_data[k].status = "Open"

C19_Witness ==
    /\ Len(warnings_data) = 2
    /\ dialog = None
    /\ edited = {1}
    /\ warnings_data[1].status = "Close"
    /\ warnings_data[1].modified_date # warnings_data[1].created_date
    /\ warnings_data[2].status = "Open"

\* load_json has just been given the file of the last call of save_json
LoadedSavedFile ==
    /\ save_call # None
    /\ loaded # None
    /\ save_call[1].path = loaded[1].path

SameInput ==
    /\ remembered # None
    /\ fileExists = remembered[1].exists
    /\ fileLines = remembered[1].lines

\* the outcome of a call now and the outcome remembered agree
Agree(outcome, first) == outcome # NotCalled /\ first # NotCalled => outcome = first

\* C18: no state crosses parser invocations.  A call of parse_journal,
\* parse_journal_with_models or find_problems on the first file of the
\* session returns what its first call on that file returned, whatever other
\* files were parsed in between, and find_problems leaves the finder's
\* thresholds as constructed.
C18_NoStateAcrossCalls ==
    /\ finder = JournalProblemFinder(10, 500)
    /\ pc = "idle" /\ SameInput =>
           /\ Agree(flat_outcome, remembered[1].flat)
           /\ Agree(models_outcome, remembered[1].models)
           /\ Agree(problems_outcome, remembered[1].problems)

C18_Witness ==
    /\ pc = "idle"
    /\ SameInput
    /\ remembered[1].between
    /\ Len(fileLines) = 1
    /\ flat_outcome # NotCalled
    /\ models_outcome # NotCalled
    /\ problems_outcome # NotCalled
    /\ flat_outcome = remembered[1].flat
    /\ models_outcome = remembered[1].models
    /\ problems_outcome = remembered[1].problems
    /\ flat_outcome.value[1].timestamp = ""

\* C22: in the list flat mode returns, and in the list it is building, an
\* entry has a non-empty command only if its category is Command.
C22_CommandOnlyOnCommand ==
    /\ pc = "flat_loop" =>
           \A i \in 1..Len(parsed_data) :
               parsed_data[i].command # "" => parsed_data[i].category = "Command"
    /\ FlatReturned =>
           \A i \in 1..Len(flat_outcome.value) :
               flat_outcome.value[i].command # "" =>
                   flat_outcome.value[i].category = "Command"

\* a Jrn.Command line with both arguments whose category was overridden has
\* an empty command, next to a Command entry that has its label
C22_Witness ==
    /\ FlatReturned
    /\ Len(flat_outcome.value) = 2
    /\ flat_outcome.value[1].category = "Command"
    /\ flat_outcome.value[1].command = "Ribbon: Save"
    /\ StartsWith(LineText(2), "Jrn.Command")
    /\ CommandLabel(LineText(2)) # None
    /\ flat_outcome.value[2].category = "Error"
    /\ flat_outcome.value[2].command = ""

\* the label of a line: "X: Y" of its two quoted arguments, "" without them
OwnLabel(text) ==
    LET label == CommandLabel(text) IN IF label = None THEN "" ELSE label[1]

\* C29 as stated: in flat mode the command of every Command-category entry
\* is the label parsed from its own line, or empty when its line has no two
\* quoted arguments; a label of an earlier line never appears.
C29_AsStated ==
    FlatReturned =>
        \A i \in 1..Len(flat_outcome.value) :
            flat_outcome.value[i].category = "Command" =>
                flat_outcome.value[i].command = OwnLabel(LineText(i))

RECURSIVE DigitsBack(_, _)
\* the number of digits that end at position e of s
DigitsBack(s, e) ==
    IF e >= 1 /\ CharAt(s, e) \in Digits THEN 1 + DigitsBack(s, e - 1) ELSE 0

\* the decimal number that ends right before position k of s, if any
NumberBefore(s, k) ==
    LET n2 == DigitsBack(s, k - 1)
        dot == k - 1 - n2
        n1 == IF dot >= 1 THEN DigitsBack(s, dot - 1) ELSE 0
    IN  IF n2 >= 1 /\ dot >= 1 /\ CharAt(s, dot) = "." /\ n1 >= 1
        THEN Some(SubSeq(s, dot - n1, k - 1))
        ELSE None

\* the first decimal number of s that is immediately followed by "!!!"
GapNumber(s) ==
    LET ks == {k \in 1..Len(s) - 2 :
                  /\ SubSeq(s, k, k + 2) = "!!!"
                  /\ NumberBefore(s, k) # None}
    IN  IF ks = {} THEN None ELSE NumberBefore(s, Min(ks))

\* C25: in flat mode an entry's content is the trimmed text of its line,
\* prefixed with "BIG GAP: <number> seconds - " when the line contains
\* BIG_GAP and a decimal number immediately followed by "!!!"; every other
\* line, a BIG_GAP line without such a number included, keeps its trimmed
\* text.
C25_Content ==
    FlatReturned =>
        \A i \in 1..Len(flat_outcome.value) :
            LET text == LineText(i)
                number == GapNumber(text)
            IN  flat_outcome.value[i].content =
                    (IF Contains(text, "BIG_GAP") /\ number # None
                     THEN "BIG GAP: " \o number[1] \o " seconds - " \o text
                     ELSE text)

\* a rewritten line, then a BIG_GAP line without a number
C25_Witness ==
    /\ FlatReturned
    /\ Len(flat_outcome.value) = 2
    /\ flat_outcome.value[1].content = "BIG GAP: 12.5 seconds - x BIG_GAP 12.5!!! y"
    /\ flat_outcome.value[2].category = "BIG GAP"
    /\ flat_outcome.value[2].content = "gap !!!BIG_GAP"

\* a line with two candidates: the number of the first "!!!" is reported
C25_WitnessFirstNumber ==
    /\ FlatReturned
    /\ Len(flat_outcome.value) = 1
    /\ flat_outcome.value[1].content = "BIG GAP: 1.2 seconds - BIG_GAP 3.1.2!!! 7.5!!!"

\* C24 as stated: for every line of a file both modes have parsed, the
\* category flat mode assigned equals the category the model-attributed
\* mode assigned.
C24_AsStated ==
    (FlatReturned /\ ModelsReturned) =>
        \A i \in 1..Len(flat_outcome.value) :
            flat_outcome.value[i].category = models_outcome.value.lines[i].category

\* the user name a line yields: None without "User's Name X,"
UserOf(text) ==
    IF Contains(text, "User's Name ") THEN Capture(UserPat, 13, text) ELSE None

\* the first user name found in the first n lines, None when there is none
FirstUser(n) ==
    LET js == {j \in 1..n : UserOf(LineText(j)) # None}
    IN  IF js = {} THEN None ELSE UserOf(LineText(Min(js)))

\* C26 as stated: during a flat-mode parse, once a line has yielded the
\* first user name X, every ModelInfo recorded in the parse, before or
\* after that line, has username X, whatever later lines say.
C26_AsStated ==
    pc = "flat_loop" =>
        LET first == FirstUser(lineno)
        IN  first # None =>
                \A k \in 1..Len(models_info) :
                    /\ "username" \in DOMAIN models_info[k]
                    /\ models_info[k].username = first[1]

\* the header field whose rule fires on a line: the first of the four the
\* line contains
FiredField(text) ==
    IF Contains(text, "Build:") THEN Some("build")
    ELSE IF Contains(text, "Branch:") THEN Some("branch")
    ELSE IF Contains(text, "Release:") THEN Some("release")
    ELSE IF Contains(text, "Username") THEN Some("username")
    ELSE None

\* the value the rule of a field produces from a line
FiredValue(field, text) ==
    IF field = "build" THEN SplitSecond(text, "Build:")
    ELSE IF field = "branch" THEN SplitSecond(text, "Branch:")
    ELSE IF field = "release" THEN SplitSecond(text, "Release:")
    ELSE LET u == Capture(UsernamePat, 13, text)
         IN  IF u = None THEN "Unknown" ELSE u[1]

\* the lines among the first n on which the rule of a field fired
FiredOn(field, n) == {i \in 1..n : FiredField(LineText(i)) = Some(field)}

\* C28: in the model-attributed mode the header has exactly the fields whose
\* rule fired on some line, one rule per line (the first of Build:, Branch:,
\* Release:, Username the line contains), each with the value of the last
\* line on which its rule fired; a Username line without the quoted form
\* gives "Unknown", also after a line that gave a name.
C28_HeaderLastWins ==
    ModelsReturned =>
        LET n == Len(models_outcome.value.lines)
            header == models_outcome.value.header
        IN  /\ DOMAIN header =
                   {f \in {"build", "branch", "release", "username"} : FiredOn(f, n) # {}}
            /\ \A f \in DOMAIN header :
                   header[f] = FiredValue(f, LineText(Max(FiredOn(f, n))))

\* a name, then a Username line without the quoted form
C28_Witness ==
    /\ ModelsReturned
    /\ Len(models_outcome.value.lines) = 2
    /\ Capture(UsernamePat, 13, LineText(1)) = Some("bob")
    /\ Contains(LineText(2), "Username")
    /\ Capture(UsernamePat, 13, LineText(2)) = None
    /\ models_outcome.value.header = [username |-> "Unknown"]

\* a line with two fields fires the rule of the first only
C28_WitnessOneRule ==
    /\ ModelsReturned
    /\ Len(models_outcome.value.lines) = 1
    /\ Contains(LineText(1), "Build:")
    /\ Contains(LineText(1), "Branch:")
    /\ models_outcome.value.header = [build |-> "2024 Branch: main"]

\* load_html fails on the file: open() raises, or HTMLParser.parse reports
\* an error
HtmlLoadFails ==
    \/ ~html_file.exists
    \/ Parse(BS4_AVAILABLE, html_file.table, Instants[now]).reported

\* C30 as stated: a load_html that fails leaves warnings_data and
\* json_file_path as they were and writes no JSON file.
C30_AsStated ==
    [][(load_html /\ HtmlLoadFails) =>
           /\ warnings_data' = warnings_data
           /\ json_file_path' = json_file_path
           /\ disk' = disk]_vars

\* the line the export is to write for a journal row: timestamp and
\* category in brackets, then the content shown in the view
RowLine(row) == "[" \o row[1] \o "] [" \o row[2] \o "]: " \o row[3]

\* C21: export_journal_filtered writes one line per visible journal entry,
\* in display order, and the line of an entry with a timestamp and a
\* category is "[timestamp] [category]: " followed by the content shown in
\* the view (no entry of the view carries a command)
C21_AsStated ==
    [][(export_journal_filtered /\ exported' # exported) =>
           /\ Len(exported'[1]) = Len(journal_tree)
           /\ \A k \in 1..Len(journal_tree) :
                 (Len(journal_tree[k]) = 3 /\ journal_tree[k][1] # "" /\ journal_tree[k][2] # "")
                     => exported'[1][k] = RowLine(journal_tree[k])]_vars

\* C23: a file operation that met a failure of reading or parsing showed
\* the user exactly one message
C23_AsStated == failed => Len(shown) = 1

\* the warning differs from the old one in status and modified_date only
OnlyStatusChanged(old, new) ==
    new = [old EXCEPT !.status = new.status, !.modified_date = new.modified_date]

\* C27: Save in the detail dialog changes only status and modified_date of
\* the dialog's warning and no other warning; every step that is neither
\* Save nor a load (Cancel, the filters, the grouping, opening the dialog,
\* the passing of time) leaves warnings_data as it is
C27_OnlyStatusChange ==
    [][/\ save_changes =>
           /\ Len(warnings_data') = Len(warnings_data)
           /\ \A k \in 1..Len(warnings_data) :
                 IF k = dialog[1]
                 THEN OnlyStatusChanged(warnings_data[k], warnings_data'[k])
                 ELSE warnings_data'[k] = warnings_data[k]
       /\ \/ warnings_data' = warnings_data
          \/ save_changes
          \/ load_html
          \/ load_json]_vars

\* a warning of two was saved with another status at a later instant, and
\* the status filter then hides it in the flat list
C27_Witness ==
    /\ Len(warnings_data) = 2
    /\ \E k \in edited :
          /\ warnings_data[k].status # "Open"
          /\ warnings_data[k].modified_date # warnings_data[k].created_date
    /\ status_filter = "Open"
    /\ ~group_mode
    /\ Len(tree) = 1

=============================================================================
